---- MODULE Spec2Model ----
(***************************************************************************)
(* A model of the inkpy runtime (src/inkpy/runtime): the Story evaluator,  *)
(* its State, CallStack, output stream and VariablesState, driven by a     *)
(* host that calls continue_(), choose_choice_index() and the              *)
(* variables_state item access (Spec); the CallStack operations on their   *)
(* own (SpecCallStack, SpecTemps); the loader of parser/json.py and the    *)
(* dumper of compiler/json.py on story files (SpecFile); Path objects      *)
(* built from strings and compared (SpecPath); Container.content_at_path   *)
(* (SpecWalk); the read of a global under a StatePatch (SpecPatch);        *)
(* Story.process_choice on bounded evaluation stacks (SpecChoice); the     *)
(* host that continues with a time budget (SpecAsync).                     *)
(*                                                                         *)
(* Modelling conventions                                                   *)
(*  - A text is a sequence of one-character strings, so that the           *)
(*    character-level whitespace rules are computed as the code computes   *)
(*    them.                                                                *)
(*  - Pointer objects are mutable and shared by reference in the code      *)
(*    (CallStack.push, Element.copy and State.previous_pointer alias the   *)
(*    same Pointer, and increment_content_pointer mutates it in place), so *)
(*    they live in a heap: a reference is an index into heap, 0 is None.   *)
(*  - A Python exception raised inside an operation is recorded in the     *)
(*    field exc of the state record; every later statement of the          *)
(*    operation is skipped, the effects made before the raise are kept.    *)
(*  - The files of the snapshot disagree on a few names across modules     *)
(*    (story.py imports JSONParser, parser/json.py defines JsonParser;     *)
(*    call_stack.py reads story.root_content_container, story.py defines   *)
(*    main_content_container).  Such cross-module names are linked to the  *)
(*    definition they denote.  Inside a function the model does what       *)
(*    Python does with the statements as written.                          *)
(***************************************************************************)
EXTENDS Integers, Sequences, FiniteSets, TLC

(* ----------------------------------------------------------------------- *)
(* Bounds                                                                  *)
(* ----------------------------------------------------------------------- *)
MaxOut == 8
MaxIndexArg == 1
MaxContinueCount == 2
MaxTranscript == 4
\* the call stacks the push and pop operations are applied to: at most
\* MaxDepth elements in the current thread, at most MaxThreads threads
MaxDepth == 2
MaxThreads == 2

(* ----------------------------------------------------------------------- *)
(* Content objects                                                         *)
(* ----------------------------------------------------------------------- *)
\* One record shape for every runtime object: k is the class, the other
\* fields hold what the class has.  id names the object where identity
\* matters: an object of the story graph has the id of its place, an object
\* made while running has id 0.
Blank == [k |-> "", s |-> "", n |-> 0, t |-> <<>>, p |-> <<>>,
          a |-> FALSE, b |-> FALSE, pt |-> "", id |-> 0]

StringValue(txt) == [Blank EXCEPT !.k = "str", !.t = txt]
RawStr(txt) == [Blank EXCEPT !.k = "raw", !.t = txt]
IntValue(i) == [Blank EXCEPT !.k = "int", !.n = i]
BoolValue(v) == [Blank EXCEPT !.k = "bool", !.a = v]
FloatValue(i) == [Blank EXCEPT !.k = "float", !.n = i]
DivertTargetValue(path) == [Blank EXCEPT !.k = "divtarget", !.p = path]
Void == [Blank EXCEPT !.k = "void"]
Glue == [Blank EXCEPT !.k = "glue"]
NoneObj == [Blank EXCEPT !.k = "none"]
ControlCommand(name) == [Blank EXCEPT !.k = "cmd", !.s = name]
Tag(txt) == [Blank EXCEPT !.k = "tag", !.t = txt]
ContainerRef(c) == [Blank EXCEPT !.k = "container", !.n = c]
VariableReference(name) == [Blank EXCEPT !.k = "varref", !.s = name]
VariableAssignment(name, isNewDecl, isGlobal) ==
    [Blank EXCEPT !.k = "assign", !.s = name, !.a = isNewDecl, !.b = isGlobal]
ChoicePoint(path, flg) == [Blank EXCEPT !.k = "choice", !.p = path, !.n = flg]
Divert(path, pushes, pushType, conditional) ==
    [Blank EXCEPT !.k = "divert", !.p = path, !.b = pushes, !.pt = pushType,
                  !.a = conditional]

Component(name, index) == [name |-> name, index |-> index]
NameC(name) == Component(name, -1)
IndexC(i) == Component("", i)

NL == <<"\n">>

Path(comps, rel) == [comps |-> comps, rel |-> rel]
AbsName(name) == Path(<<NameC(name)>>, FALSE)

(* ----------------------------------------------------------------------- *)
(* Stories: the container graphs the parser builds.  Container 1 is the    *)
(* root; content[c] is the content of container c, name[c] its "#n" name   *)
(* ("" for none) and f[c] its "#f" count flags.  A child container is the  *)
(* item ContainerRef(c).  Named-only children are not attached by          *)
(* _parse_list_to_container, so every container is in its parent's content.*)
(* ----------------------------------------------------------------------- *)
THelloWorld == <<"h", "e", "l", "l", "o", " ", "w", "o", "r", "l", "d">>

StorySimple ==
    [content |-> << <<StringValue(THelloWorld), StringValue(NL)>> >>,
     name |-> <<"">>, f |-> <<0>>]

StoryMultiline ==
    [content |-> << <<ContainerRef(2), ControlCommand("done")>>,
                    <<StringValue(<<"A">>), StringValue(NL),
                      StringValue(<<"B">>), StringValue(NL), ContainerRef(3)>>,
                    <<ControlCommand("done")>> >>,
     name |-> <<"", "", "g-0">>, f |-> <<0, 0, 0>>]

StoryTunnel ==
    [content |-> << <<Divert(AbsName("t"), TRUE, "Tunnel", FALSE),
                      StringValue(<<"W">>), StringValue(NL),
                      ControlCommand("done"), ContainerRef(2)>>,
                    <<StringValue(<<"H">>), ControlCommand("ev"), Void,
                      ControlCommand("/ev"), ControlCommand("->->")>> >>,
     name |-> <<"", "t">>, f |-> <<0, 0>>]

StoryError ==
    [content |-> << <<StringValue(<<"A">>), ControlCommand("ev"), IntValue(1),
                      ControlCommand("readc"), ControlCommand("/ev"),
                      StringValue(<<"B">>), StringValue(NL)>> >>,
     name |-> <<"">>, f |-> <<0>>]

StoryWarning ==
    [content |-> << <<ControlCommand("ev"), VariableReference("u"),
                      ControlCommand("out"), ControlCommand("/ev"),
                      StringValue(<<"A">>), StringValue(NL)>> >>,
     name |-> <<"">>, f |-> <<0>>]

StoryChoice ==
    [content |-> << <<StringValue(<<"Q">>), StringValue(NL),
                      ChoicePoint(AbsName("c"), 16), ControlCommand("done"),
                      ContainerRef(2)>>,
                    <<StringValue(<<"A">>), StringValue(NL),
                      ControlCommand("end")>> >>,
     name |-> <<"", "c">>, f |-> <<0, 1>>]

StoryVisitLoop ==
    [content |-> << <<ContainerRef(2)>>,
                    <<StringValue(<<"A">>), StringValue(NL),
                      Divert(AbsName("x"), FALSE, "Function", FALSE)>> >>,
     name |-> <<"", "x">>, f |-> <<5, 4>>]

StoryVisitChild ==
    [content |-> << <<StringValue(<<"A">>), StringValue(NL), ContainerRef(2)>>,
                    <<StringValue(<<"B">>), StringValue(NL)>> >>,
     name |-> <<"", "">>, f |-> <<0, 1>>]

StoryVariable ==
    [content |-> << <<ControlCommand("ev"), VariableReference("x"),
                      ControlCommand("out"), ControlCommand("/ev"),
                      StringValue(NL), ControlCommand("done"), ContainerRef(2)>>,
                    <<ControlCommand("ev"), IntValue(5),
                      VariableAssignment("x", TRUE, TRUE),
                      ControlCommand("/ev"), ControlCommand("end")>> >>,
     name |-> <<"", "global decl">>, f |-> <<0, 0>>]

\* a once-only choice point whose target ("c.^") is the root container,
\* which counts its visits and is entered when the global declarations run
StoryChoiceRoot ==
    [content |-> << <<StringValue(<<"Q">>), StringValue(NL),
                      ChoicePoint(Path(<<NameC("c"), NameC("^")>>, FALSE), 16),
                      ControlCommand("done"), ContainerRef(2), ContainerRef(3)>>,
                    <<StringValue(<<"A">>), StringValue(NL),
                      ControlCommand("end")>>,
                    <<ControlCommand("ev"), IntValue(5),
                      VariableAssignment("x", TRUE, TRUE),
                      ControlCommand("/ev"), ControlCommand("end")>> >>,
     name |-> <<"", "c", "global decl">>, f |-> <<1, 0, 0>>]

\* a temporary variable declared in the main flow ({"temp=": "u"})
StoryTemp ==
    [content |-> << <<ControlCommand("ev"), IntValue(5),
                      VariableAssignment("u", TRUE, FALSE),
                      ControlCommand("/ev"),
                      StringValue(<<"A">>), StringValue(NL),
                      ControlCommand("done")>> >>,
     name |-> <<"">>, f |-> <<0>>]

\* a declared global that the flow assigns a new value (x = 7) and then its
\* own value (x = x)
StoryAssign ==
    [content |-> << <<ControlCommand("ev"), IntValue(7),
                      VariableAssignment("x", FALSE, TRUE),
                      ControlCommand("/ev"),
                      ControlCommand("ev"), VariableReference("x"),
                      VariableAssignment("x", FALSE, TRUE),
                      ControlCommand("/ev"),
                      StringValue(<<"A">>), StringValue(NL),
                      ControlCommand("done"), ContainerRef(2)>>,
                    <<ControlCommand("ev"), IntValue(5),
                      VariableAssignment("x", TRUE, TRUE),
                      ControlCommand("/ev"), ControlCommand("end")>> >>,
     name |-> <<"", "global decl">>, f |-> <<0, 0>>]

\* a flow that ends without any text
StoryNoText ==
    [content |-> << <<ControlCommand("done")>> >>,
     name |-> <<"">>, f |-> <<0>>]

\* implicit inline glue: 'A', newline, glue ("<>"), 'B', newline
StoryGlue ==
    [content |-> << <<StringValue(<<"A">>), StringValue(NL), Glue,
                      StringValue(<<"B">>), StringValue(NL),
                      ControlCommand("done")>> >>,
     name |-> <<"">>, f |-> <<0>>]

\* glue after a longer run of whitespace (newline, blank, newline), and two
\* glues in a row
StoryGlueRun ==
    [content |-> << <<StringValue(<<"A">>), StringValue(NL),
                      StringValue(<<" ">>), StringValue(NL), Glue,
                      StringValue(<<"B">>), StringValue(NL),
                      StringValue(<<"C">>), Glue, Glue,
                      StringValue(<<"D">>), StringValue(NL),
                      ControlCommand("done")>> >>,
     name |-> <<"">>, f |-> <<0>>]

\* the value 0 printed by EvalOutput ({0}): ev, 0, out, /ev, 'A', newline
StoryZero ==
    [content |-> << <<ControlCommand("ev"), IntValue(0),
                      ControlCommand("out"), ControlCommand("/ev"),
                      StringValue(<<"A">>), StringValue(NL),
                      ControlCommand("done")>> >>,
     name |-> <<"">>, f |-> <<0>>]

\* a function called inside an expression ({"f()": "f"}) that prints 'H' and
\* a blank and runs out of content without a return statement
StoryFunction ==
    [content |-> << <<ControlCommand("ev"),
                      Divert(AbsName("f"), TRUE, "Function", FALSE),
                      ControlCommand("pop"), ControlCommand("/ev"),
                      StringValue(<<"B">>), StringValue(NL),
                      ControlCommand("done"), ContainerRef(2)>>,
                    <<StringValue(<<"H">>), StringValue(<<" ">>)>> >>,
     name |-> <<"", "f">>, f |-> <<0, 0>>]

\* a thread started on 't' ("thread", {"->": "t"}) that ends with done
StoryThread ==
    [content |-> << <<ControlCommand("thread"),
                      Divert(AbsName("t"), FALSE, "Function", FALSE),
                      StringValue(<<"B">>), StringValue(NL),
                      ControlCommand("done"), ContainerRef(2)>>,
                    <<StringValue(<<"T">>), StringValue(NL),
                      ControlCommand("done")>> >>,
     name |-> <<"", "t">>, f |-> <<0, 0>>]

\* a thread started on 't' whose content runs out
StoryThreadEnd ==
    [content |-> << <<ControlCommand("thread"),
                      Divert(AbsName("t"), FALSE, "Function", FALSE),
                      StringValue(<<"B">>), StringValue(NL),
                      ControlCommand("done"), ContainerRef(2)>>,
                    <<StringValue(<<"T">>), StringValue(<<"U">>)>> >>,
     name |-> <<"", "t">>, f |-> <<0, 0>>]

\* a newline pushed right after a glue: 'A', glue, newline, 'B', newline
StoryGlueNewline ==
    [content |-> << <<StringValue(<<"A">>), Glue, StringValue(NL),
                      StringValue(<<"B">>), StringValue(NL),
                      ControlCommand("done")>> >>,
     name |-> <<"">>, f |-> <<0>>]

\* a string evaluation of two texts: ev, str, 'a', 'b', /str, pop, /ev, then
\* 'C' and a newline
StoryString ==
    [content |-> << <<ControlCommand("ev"), ControlCommand("str"),
                      StringValue(<<"a">>), StringValue(<<"b">>),
                      ControlCommand("/str"), ControlCommand("pop"),
                      ControlCommand("/ev"), StringValue(<<"C">>),
                      StringValue(NL), ControlCommand("done")>> >>,
     name |-> <<"">>, f |-> <<0>>]

Stories == <<StorySimple, StoryMultiline, StoryTunnel, StoryError,
             StoryWarning, StoryChoice, StoryVisitLoop, StoryVisitChild,
             StoryVariable, StoryChoiceRoot, StoryTemp, StoryAssign,
             StoryNoText, StoryGlue, StoryGlueRun, StoryZero, StoryFunction,
             StoryThread, StoryThreadEnd, StoryGlueNewline, StoryString>>

(* ----------------------------------------------------------------------- *)
(* Container                                                               *)
(* ----------------------------------------------------------------------- *)
Containers(S) == 1..Len(S.content)
Content(S, c) == S.content[c]
IsContainerItem(it) == it.k = "container"

\* Container.count_flags (setter): the three booleans a "#f" value sets.
CountFlagsSet(f) ==
    [visits |-> ((f % 2) = 1) \/ (((f \div 2) % 2) = 1),
     turns |-> FALSE,
     start_only |-> ((f \div 4) % 2) = 1]

visits_should_be_counted(S, c) == CountFlagsSet(S.f[c]).visits
turn_index_should_be_counted(S, c) == CountFlagsSet(S.f[c]).turns
count_at_start_only(S, c) == CountFlagsSet(S.f[c]).start_only

\* InkObject.parent of a container: 0 for the root.
ParentOf(S, c) ==
    IF \E d \in Containers(S) : \E i \in 1..Len(Content(S, d)) :
           Content(S, d)[i] = ContainerRef(c)
    THEN CHOOSE d \in Containers(S) : \E i \in 1..Len(Content(S, d)) :
           Content(S, d)[i] = ContainerRef(c)
    ELSE 0

\* Container.named_content.get(name): the child container registered under
\* name by try_add_named_content, 0 for None.
NamedContentGet(S, c, name) ==
    IF \E i \in 1..Len(Content(S, c)) :
          /\ IsContainerItem(Content(S, c)[i])
          /\ S.name[Content(S, c)[i].n] # ""
          /\ S.name[Content(S, c)[i].n] = name
    THEN Content(S, c)[CHOOSE i \in 1..Len(Content(S, c)) :
          /\ IsContainerItem(Content(S, c)[i])
          /\ S.name[Content(S, c)[i].n] = name
          /\ \A j \in (i + 1)..Len(Content(S, c)) :
                ~(IsContainerItem(Content(S, c)[j])
                  /\ S.name[Content(S, c)[j].n] = name)].n
    ELSE 0

(* ----------------------------------------------------------------------- *)
(* Objects of the graph.  An object reference is [kind, c, i]: the         *)
(* container c (kind "container"), the leaf at 0-based index i of          *)
(* container c (kind "item"), or None (kind "none").                       *)
(* ----------------------------------------------------------------------- *)
NoObject == [kind |-> "none", c |-> 0, i |-> 0]
ContainerObj(c) == IF c = 0 THEN NoObject ELSE [kind |-> "container", c |-> c, i |-> 0]
ChildObj(S, c, i) ==
    IF IsContainerItem(Content(S, c)[i + 1])
    THEN ContainerObj(Content(S, c)[i + 1].n)
    ELSE [kind |-> "item", c |-> c, i |-> i]
ItemOf(S, o) ==
    IF o.kind = "item"
    THEN [Content(S, o.c)[o.i + 1] EXCEPT !.id = o.c * 100 + o.i + 1]
    ELSE NoneObj

\* InkObject.parent
ObjParent(S, o) ==
    IF o.kind = "item" THEN o.c
    ELSE IF o.kind = "container" THEN ParentOf(S, o.c) ELSE 0

\* InkObject.path (getter).  For an object with a parent the first statement
\* of the else branch is isinstance(child.parent, t.Type["Container"]), and
\* isinstance with a subscripted generic raises TypeError; an object without
\* a parent (the root) has the empty path.
PathExc(S, o) == IF ObjParent(S, o) # 0 THEN "TypeError" ELSE ""

\* Pointer.resolve on the pointer value (c, i); c = 0 is a None container.
\* [exc, obj]
PointerResolve(S, c, i) ==
    IF i < 0 THEN [exc |-> "", obj |-> ContainerObj(c)]
    ELSE IF c = 0 THEN [exc |-> "", obj |-> NoObject]
    ELSE IF Len(Content(S, c)) = 0 THEN [exc |-> "", obj |-> ContainerObj(c)]
    ELSE IF i > Len(Content(S, c)) THEN [exc |-> "", obj |-> NoObject]
    ELSE IF i = Len(Content(S, c)) THEN [exc |-> "IndexError", obj |-> NoObject]
    ELSE [exc |-> "", obj |-> ChildObj(S, c, i)]

\* Python's seq[a:b] for a sequence (0-based, negative indices from the end).
PySlice(seq, a, b) ==
    LET n == Len(seq)
        lo0 == IF a < 0 THEN a + n ELSE a
        hi0 == IF b < 0 THEN b + n ELSE b
        lo == IF lo0 < 0 THEN 0 ELSE IF lo0 > n THEN n ELSE lo0
        hi == IF hi0 < 0 THEN 0 ELSE IF hi0 > n THEN n ELSE hi0
    IN IF hi <= lo THEN <<>> ELSE SubSeq(seq, lo + 1, hi)

\* Container.content_with_path_component: the object, NoObject for None.
content_with_path_component(S, c, comp) ==
    IF comp.index >= 0
    THEN IF comp.index < Len(Content(S, c)) THEN ChildObj(S, c, comp.index)
         ELSE NoObject
    ELSE IF comp.name = "^" THEN ContainerObj(ParentOf(S, c))
    ELSE ContainerObj(NamedContentGet(S, c, comp.name))

\* Container.content_at_path(path, start, length): [obj, approximate].  The
\* components followed are path.components[start - 1 : length].
RECURSIVE ContentAtPathWalk(_, _, _, _)
ContentAtPathWalk(S, container, current, comps) ==
    IF comps = <<>> THEN [obj |-> current, approximate |-> FALSE]
    ELSE IF container.kind # "container"
         THEN [obj |-> current, approximate |-> TRUE]
    ELSE LET o == content_with_path_component(S, container.c, Head(comps))
         IN IF o.kind = "none" THEN [obj |-> current, approximate |-> TRUE]
            ELSE ContentAtPathWalk(S, o, o, Tail(comps))

content_at_path(S, c, path, start, length) ==
    LET len == IF length = -1 THEN Len(path.comps) ELSE length
    IN ContentAtPathWalk(S, ContainerObj(c), ContainerObj(c),
                         PySlice(path.comps, start - 1, len))

\* SearchResult.container
ResultContainer(res) == IF res.obj.kind = "container" THEN res.obj.c ELSE 0

\* InkObject.resolve_path for an object that is not the root: [exc, res].
\* type(self) == "Container" compares a class with a string and is False.
resolve_path(S, path) ==
    IF path.rel
    THEN [exc |-> "AssertionError",
          res |-> [obj |-> NoObject, approximate |-> FALSE]]
    ELSE [exc |-> "", res |-> content_at_path(S, 1, path, 0, -1)]

\* Divert.target_pointer: [exc, c, i], the value of the returned copy.
target_pointer(S, d) ==
    LET last == d.p.comps[Len(d.p.comps)]
        \* with the result r of resolve_path and its object target
        Resolved(r, target) ==
            IF r.exc # "" THEN [exc |-> r.exc, c |-> 0, i |-> 0]
            ELSE IF d.p.comps = <<>> THEN [exc |-> "AttributeError", c |-> 0, i |-> 0]
            ELSE IF last.index >= 0
                 THEN IF PathExc(S, target) # ""
                      THEN [exc |-> PathExc(S, target), c |-> 0, i |-> 0]
                      ELSE [exc |-> "", c |-> 0, i |-> last.index]
            ELSE [exc |-> "",
                  c |-> IF target.kind = "container" THEN target.c ELSE 0,
                  i |-> 0]
        WithResult(r) == Resolved(r, r.res.obj)
    IN WithResult(resolve_path(S, d.p))

(* ----------------------------------------------------------------------- *)
(* Runtime state.  One record m holds the State object (with its Flow,     *)
(* CallStack and VariablesState) and the heap of Pointer objects.          *)
(*   heap[r]          Pointer object r: [c, i] (container, index); c = 0   *)
(*                    is a Pointer whose container is None                 *)
(*   threads          CallStack.threads; a thread is [callstack, index,    *)
(*                    prev], an element [type, ptr, temps, in_expr,        *)
(*                    ev_height, fn_start]; ptr and prev are references    *)
(*   globals, defaults  VariablesState._global_variables and               *)
(*                    _default_global_variables                            *)
(*   batch, changed   _batch_observing_variable_changes and                *)
(*                    _changed_variables_for_batch_obs                     *)
(*   events           history: the calls of variable_changed_event made    *)
(*                    by the host call in progress, [name, value]          *)
(*   exc              the exception propagating out of the operation       *)
(*   entries          history: per container, how many times               *)
(*                    visit_container counted an entry                     *)
(* ----------------------------------------------------------------------- *)
VarNames == {"x", "u"}
Absent == [Blank EXCEPT !.k = "absent"]
NoTemps == [v \in VarNames |-> Absent]

\* CallStack.Element.__init__
Element(type, ptr) ==
    [type |-> type, ptr |-> ptr, temps |-> NoTemps, in_expr |-> FALSE,
     ev_height |-> -1, fn_start |-> -1]

CurThread(m) == m.threads[Len(m.threads)]
call_stack(m) == CurThread(m).callstack
current_element(m) == call_stack(m)[Len(call_stack(m))]
SetCurElement(m, e) ==
    [m EXCEPT !.threads[Len(m.threads)].callstack[Len(call_stack(m))] = e]

\* State.current_pointer (getter and setter), State.previous_pointer
current_pointer(m) == current_element(m).ptr
SetCurrentPointer(m, r) == SetCurElement(m, [current_element(m) EXCEPT !.ptr = r])
previous_pointer(m) == CurThread(m).prev
SetPreviousPointer(m, r) == [m EXCEPT !.threads[Len(m.threads)].prev = r]

\* Pointer.__bool__ of the object behind a reference (None is falsy)
PtrTruthy(m, r) == r # 0 /\ m.heap[r].c # 0

\* a new Pointer object; its reference is Len(m.heap) + 1
Alloc(m, c, i) == [m EXCEPT !.heap = Append(@, [c |-> c, i |-> i])]
NewRef(m) == Len(m.heap) + 1

Raise(m, e) == [m EXCEPT !.exc = e]
\* raise StoryException(message)
RaiseStory(m, message) == [m EXCEPT !.exc = "StoryException", !.exc_msg = message]

has_error(m) == Len(m.errors) > 0
has_warning(m) == Len(m.warnings) > 0
can_continue(m) == PtrTruthy(m, current_pointer(m)) /\ ~has_error(m)
in_expression_evaluation(m) == current_element(m).in_expr

\* State.current_choices
current_choices(m) == IF can_continue(m) THEN <<>> ELSE m.choices

\* a variant of can_pop without the test of the length
can_pop_AnyLength(m, type) ==
    IF type = "" THEN TRUE
    ELSE current_element(m).type = type

\* CallStack.can_pop; type "" is None
can_pop(m, type) ==
    IF Len(call_stack(m)) <= 1 THEN FALSE
    ELSE IF type = "" THEN TRUE
    ELSE current_element(m).type = type

can_pop_thread(m) ==
    Len(m.threads) > 1 /\ current_element(m).type # "FunctionEvaluationFromGame"

\* CallStack.pop
CallStackPop(m, type) ==
    IF can_pop(m, type)
    THEN [m EXCEPT !.threads[Len(m.threads)].callstack =
                       SubSeq(@, 1, Len(@) - 1)]
    ELSE Raise(m, "RuntimeError")

\* CallStack.pop_thread
pop_thread(m) ==
    IF can_pop_thread(m)
    THEN [m EXCEPT !.threads = SubSeq(@, 1, Len(@) - 1)]
    ELSE Raise(m, "RuntimeError")

\* a variant of push that also empties the temporary variables of the caller
CallStackPush_ClearsCaller(m, type, evHeight, outLen) ==
    [m EXCEPT !.threads[Len(m.threads)].callstack =
        Append([@ EXCEPT ![Len(@)].temps = NoTemps],
               [Element(type, current_pointer(m)) EXCEPT
                   !.ev_height = evHeight, !.fn_start = outLen])]

\* CallStack.push: the new element holds the caller's Pointer object
CallStackPush(m, type, evHeight, outLen) ==
    [m EXCEPT !.threads[Len(m.threads)].callstack =
        Append(@, [Element(type, current_pointer(m)) EXCEPT
                      !.ev_height = evHeight, !.fn_start = outLen])]

\* CallStack.Element.copy: the Pointer is shared, the temporary variables
\* are not copied
ElementCopy(e) ==
    [Element(e.type, e.ptr) EXCEPT !.in_expr = e.in_expr,
        !.ev_height = e.ev_height, !.fn_start = e.fn_start]

\* CallStack.Thread.copy
ThreadCopy(th) ==
    [callstack |-> [j \in 1..Len(th.callstack) |-> ElementCopy(th.callstack[j])],
     index |-> th.index, prev |-> th.prev]

\* CallStack.push_thread and CallStack.fork_thread append the same copy
push_thread(m) ==
    [m EXCEPT !.threads =
        Append(@, [ThreadCopy(CurThread(m)) EXCEPT !.index = Len(m.threads)])]

\* CallStack.reset: one thread, one Tunnel element at start_of_root (heap[1])
CallStackReset(m) ==
    [m EXCEPT !.threads =
        << [callstack |-> <<Element("Tunnel", 1)>>, index |-> -1, prev |-> 0] >>]

\* State.force_end
force_end(m) ==
    LET m1 == [CallStackReset(m) EXCEPT !.choices = <<>>]
        m2 == SetPreviousPointer(SetCurrentPointer(m1, 0), 0)
    IN [m2 EXCEPT !.did_safe_exit = TRUE]

\* add_error without the force_end of an error
add_error_KeepsFlow(m, message, is_warning) ==
    IF is_warning THEN [m EXCEPT !.warnings = Append(@, message)]
    ELSE [m EXCEPT !.errors = Append(@, message)]

\* Story.add_error
add_error(m, message, is_warning) ==
    IF is_warning THEN [m EXCEPT !.warnings = Append(@, message)]
    ELSE force_end([m EXCEPT !.errors = Append(@, message)])

(* ----------------------------------------------------------------------- *)
(* Output stream (State)                                                   *)
(* ----------------------------------------------------------------------- *)
InlineWs == {" ", "\t"}

\* StringValue.is_newline, is_inline_whitespace, is_non_whitespace
is_newline(o) == o.t = NL
is_inline_whitespace(o) == \A j \in 1..Len(o.t) : o.t[j] \in InlineWs
is_non_whitespace(o) == ~is_newline(o) /\ ~is_inline_whitespace(o)

IsStringValue(o) == o.k = "str"
IsControlCommand(o) == o.k = "cmd"
IsGlue(o) == o.k = "glue"

\* State.output_stream_dirty
output_stream_dirty(m) == [m EXCEPT !.text_dirty = "True"]

\* State.output_stream_contains_content
output_stream_contains_content(m) ==
    \E j \in 1..Len(m.out) : IsStringValue(m.out[j])

\* State.output_stream_ends_in_newline: the loop runs from the first element
\* of the stream and leaves at the first element that is not a
\* ControlCommand; the StringValue branch is under "is a ControlCommand".
RECURSIVE EndsInNewlineFrom(_, _)
EndsInNewlineFrom(out, j) ==
    IF j > Len(out) THEN FALSE
    ELSE IF ~IsControlCommand(out[j]) THEN FALSE
    ELSE IF IsStringValue(out[j]) /\ is_newline(out[j]) THEN TRUE
    ELSE IF IsStringValue(out[j]) /\ is_non_whitespace(out[j]) THEN FALSE
    ELSE EndsInNewlineFrom(out, j + 1)

output_stream_ends_in_newline(m) == EndsInNewlineFrom(m.out, 1)

\* State.in_string_evaluation
in_string_evaluation(m) ==
    \E j \in 1..Len(m.out) : IsControlCommand(m.out[j]) /\ m.out[j].s = "str"

\* State.trim_newlines_from_output_stream
RECURSIVE TrimScan(_, _, _)
TrimScan(out, index, from) ==
    IF index < 0 THEN from
    ELSE LET c == out[index + 1]
         IN IF IsControlCommand(c) \/ (IsStringValue(c) /\ is_non_whitespace(c))
            THEN from
            ELSE TrimScan(out, index - 1,
                          IF IsStringValue(c) /\ is_newline(c) THEN index ELSE from)

SelectNonString(seq) == SelectSeq(seq, LAMBDA c : ~IsStringValue(c))

\* a variant that leaves every entry in the stream
trim_newlines_from_output_stream_KeepsAll(m) == output_stream_dirty(m)

trim_newlines_from_output_stream(m) ==
    LET from == TrimScan(m.out, Len(m.out) - 1, -1)
        out1 == IF from >= 0
                THEN SubSeq(m.out, 1, from)
                     \o SelectNonString(SubSeq(m.out, from + 1, Len(m.out)))
                ELSE m.out
    IN output_stream_dirty([m EXCEPT !.out = out1])

\* State.remove_existing_glue
RECURSIVE DropTrailingGlue(_)
DropTrailingGlue(out) ==
    IF out # <<>> /\ IsGlue(out[Len(out)])
    THEN DropTrailingGlue(SubSeq(out, 1, Len(out) - 1))
    ELSE out

remove_existing_glue(m) ==
    output_stream_dirty([m EXCEPT !.out = DropTrailingGlue(@)])

\* The first loop of push_to_output_stream_individual: [glue, fn], the
\* glue_trim_index and function_trim_index after scanning the stream from
\* its first element.
RECURSIVE GlueScan(_, _, _)
GlueScan(out, j, fn) ==
    IF j >= Len(out) THEN [glue |-> -1, fn |-> fn]
    ELSE IF IsGlue(out[j + 1]) THEN [glue |-> j, fn |-> fn]
    ELSE IF IsControlCommand(out[j + 1]) /\ out[j + 1].s = "str"
         THEN [glue |-> -1, fn |-> IF j >= fn THEN -1 ELSE fn]
    ELSE GlueScan(out, j + 1, fn)

\* The loop over call_stack.elements, from the bottom of the call stack:
\* leading Function elements get function_start_in_output_stream = -1.
RECURSIVE ClearFnStart(_, _)
ClearFnStart(cs, j) ==
    IF j > Len(cs) THEN cs
    ELSE IF cs[j].type = "Function"
         THEN ClearFnStart([cs EXCEPT ![j].fn_start = -1], j + 1)
    ELSE cs

Min(a, b) == IF a < b THEN a ELSE b

\* State.push_to_output_stream_individual
push_to_output_stream_individual(m, o) ==
    IF IsGlue(o)
    THEN LET m1 == trim_newlines_from_output_stream(m)
         IN output_stream_dirty([m1 EXCEPT !.out = Append(@, o)])
    ELSE IF IsStringValue(o)
    THEN LET fn0 == IF current_element(m).type = "Function"
                    THEN current_element(m).fn_start ELSE -1
             \* with the trim indices sc the first loop found, and trim_index
             Scanned(sc, trim) ==
                 LET include == ~(/\ trim = -1
                                  /\ is_newline(o)
                                  /\ (\/ output_stream_ends_in_newline(m)
                                      \/ ~output_stream_contains_content(m)))
                     \* after the glue and function start were cleared
                     Cleared(m1) ==
                         IF include
                         THEN output_stream_dirty([m1 EXCEPT !.out = Append(@, o)])
                         ELSE m1
                     Unglued(g) ==
                         IF sc.fn > -1
                         THEN [g EXCEPT !.threads[Len(g.threads)].callstack =
                                            ClearFnStart(@, 1)]
                         ELSE g
                 IN IF trim # -1 /\ ~is_newline(o) /\ is_non_whitespace(o)
                    THEN Cleared(Unglued(IF sc.glue > -1 THEN remove_existing_glue(m)
                                         ELSE m))
                    ELSE Cleared(m)
             WithScan(sc) ==
                 Scanned(sc, IF sc.glue # -1 /\ sc.fn # -1 THEN Min(sc.glue, sc.fn)
                             ELSE IF sc.glue # -1 THEN sc.glue
                             ELSE sc.fn)
         IN WithScan(GlueScan(m.out, 0, fn0))
    ELSE output_stream_dirty([m EXCEPT !.out = Append(@, o)])

\* State.try_splitting_head_tail_whitespace
RECURSIVE HeadScan(_, _, _, _)
HeadScan(t, j, first, last) ==
    IF j >= Len(t) THEN [first |-> first, last |-> last]
    ELSE IF t[j + 1] = "\n"
         THEN HeadScan(t, j + 1, IF first = -1 THEN j ELSE first, j)
    ELSE IF t[j + 1] \in InlineWs THEN HeadScan(t, j + 1, first, last)
    ELSE [first |-> first, last |-> last]

RECURSIVE TailScan(_, _, _, _)
TailScan(t, j, last, first) ==
    IF j < 0 THEN [first |-> first, last |-> last]
    ELSE IF t[j + 1] = "\n"
         THEN TailScan(t, j - 1, IF last = -1 THEN j ELSE last, j)
    ELSE IF t[j + 1] \in InlineWs THEN TailScan(t, j - 1, last, first)
    ELSE [first |-> first, last |-> last]

\* [none, texts]: none is the bare return; the inner text is appended as a
\* plain str (RawStr), not as a StringValue.
try_splitting_head_tail_whitespace(o) ==
    LET t == o.t
        \* with the head and tail newline positions h and tl, and the bounds
        \* of the inner text
        Split(h, tl, inner_start, inner_end) ==
            LET head == IF h.first # -1
                        THEN (IF h.first > 0
                              THEN <<StringValue(PySlice(t, 0, h.first))>> ELSE <<>>)
                             \o <<StringValue(NL)>>
                        ELSE <<>>
                inner == IF inner_end > inner_start
                         THEN <<RawStr(PySlice(t, inner_start,
                                               inner_start + inner_end))>>
                         ELSE <<>>
                tail == IF tl.last # -1 /\ tl.first > h.last
                        THEN <<StringValue(NL)>>
                             \o (IF tl.last < Len(t) - 1
                                 THEN <<StringValue(PySlice(t, tl.last + 1, Len(t)))>>
                                 ELSE <<>>)
                        ELSE <<>>
            IN IF h.first = -1 /\ tl.last = -1 THEN [none |-> TRUE, texts |-> <<>>]
               ELSE [none |-> FALSE, texts |-> head \o inner \o tail]
        Scanned(h, tl) ==
            Split(h, tl, IF h.first # -1 THEN h.last + 1 ELSE 0,
                  IF tl.last # -1 THEN tl.last ELSE Len(t))
    IN Scanned(HeadScan(t, 0, -1, -1), TailScan(t, Len(t) - 1, -1, -1))

RECURSIVE PushAll(_, _)
PushAll(m, texts) ==
    IF texts = <<>> THEN m
    ELSE PushAll(push_to_output_stream_individual(m, Head(texts)), Tail(texts))

\* what push_to_output_stream hands to push_to_output_stream_individual: the
\* texts a StringValue was split into, or the object itself
TextsToPush(o) ==
    LET sp == try_splitting_head_tail_whitespace(o)
    IN IF IsStringValue(o) /\ ~sp.none /\ sp.texts # <<>> THEN sp.texts ELSE <<o>>

\* State.push_to_output_stream
push_to_output_stream(m, o) == output_stream_dirty(PushAll(m, TextsToPush(o)))

\* State.clean_output_whitespace
RECURSIVE CleanFrom(_, _, _, _, _)
CleanFrom(t, j, ws, sol, acc) ==
    IF j >= Len(t) THEN acc
    ELSE LET c == t[j + 1]
             inl == c \in InlineWs
             ws1 == IF inl /\ ws = -1 THEN j ELSE ws
             sp == ~inl /\ c # "\n" /\ ws1 > 0 /\ ws1 # sol
         IN CleanFrom(t, j + 1,
                      IF inl THEN ws1 ELSE -1,
                      IF c = "\n" THEN j + 1 ELSE sol,
                      acc \o (IF sp THEN <<" ">> ELSE <<>>)
                          \o (IF inl THEN <<>> ELSE <<c>>))

clean_output_whitespace(t) == CleanFrom(t, 0, -1, 0, <<>>)

\* The text State.current_text recomputes from the stream
RECURSIVE StreamText(_, _, _)
StreamText(out, j, in_tag) ==
    IF j > Len(out) THEN <<>>
    ELSE IF ~in_tag /\ IsStringValue(out[j])
         THEN out[j].t \o StreamText(out, j + 1, in_tag)
    ELSE IF IsControlCommand(out[j]) /\ out[j].s = "#"
         THEN StreamText(out, j + 1, TRUE)
    ELSE IF IsControlCommand(out[j]) /\ out[j].s = "/#"
         THEN StreamText(out, j + 1, FALSE)
    ELSE StreamText(out, j + 1, in_tag)

\* State.current_text: reads _output_stream_text_dirty, which __init__ does
\* not create ("unset"), and caches the text.
current_text(m) ==
    IF m.text_dirty = "unset" THEN Raise(m, "AttributeError")
    ELSE IF m.text_dirty = "True"
         THEN [m EXCEPT !.cur_text = clean_output_whitespace(StreamText(m.out, 1, FALSE)),
                        !.text_dirty = "False"]
    ELSE m

\* State.reset_output
reset_output(m) == [m EXCEPT !.out = <<>>]

\* State.reset_errors
reset_errors(m) == [m EXCEPT !.errors = <<>>, !.warnings = <<>>]

(* ----------------------------------------------------------------------- *)
(* Visit counts and moving the pointer (Story, State)                      *)
(* ----------------------------------------------------------------------- *)
\* bool(obj) of a content object; the DivertTargetValue raises instead
ItemTruthy(it) ==
    CASE it.k = "str" -> Len(it.t) > 0
      [] it.k = "int" -> it.n # 0
      [] it.k = "float" -> it.n # 0
      [] it.k = "bool" -> it.a
      [] it.k = "void" -> FALSE
      [] it.k = "none" -> FALSE
      [] OTHER -> TRUE
ItemBoolRaises(it) == it.k = "divtarget"

ObjTruthy(S, o) ==
    IF o.kind = "none" THEN FALSE
    ELSE IF o.kind = "container" THEN TRUE
    ELSE ItemTruthy(ItemOf(S, o))

\* a == b on two objects of the graph: identity, except Void.__eq__, which
\* holds between any two Void objects
ObjEq(S, a, b) ==
    \/ a = b
    \/ /\ a.kind = "item" /\ b.kind = "item"
       /\ ItemOf(S, a).k = "void" /\ ItemOf(S, b).k = "void"

\* State.increment_visit_count_for_container: the key is
\* str(container.path); the first entry stores 0.
increment_visit_count_for_container(S, m, c) ==
    IF PathExc(S, ContainerObj(c)) # "" THEN Raise(m, PathExc(S, ContainerObj(c)))
    ELSE IF m.visit_counts[c] # -1
         THEN [m EXCEPT !.visit_counts[c] = @ + 1]
    ELSE [m EXCEPT !.visit_counts[c] = 0]

\* State.record_turn_index_visit_to_container: self.turn_indices does not
\* exist (the attribute is _turn_indices)
record_turn_index_visit_to_container(S, m, c) ==
    IF PathExc(S, ContainerObj(c)) # "" THEN Raise(m, PathExc(S, ContainerObj(c)))
    ELSE Raise(m, "AttributeError")

\* Story.visit_container
visit_container(S, m, c, at_start) ==
    IF m.exc # "" THEN m
    ELSE IF ~count_at_start_only(S, c) \/ at_start
    THEN LET m1 == IF visits_should_be_counted(S, c)
                   THEN increment_visit_count_for_container(S,
                            [m EXCEPT !.entries[c] = @ + 1], c)
                   ELSE m
         IN IF m1.exc = "" /\ turn_index_should_be_counted(S, c)
            THEN record_turn_index_visit_to_container(S, m1, c)
            ELSE m1
    ELSE m

\* the container and its ancestors, as _prev_containers collects them
RECURSIVE AncestorsFrom(_, _)
AncestorsFrom(S, c) == IF c = 0 THEN {} ELSE {c} \cup AncestorsFrom(S, ParentOf(S, c))

\* the while loop of visit_changed_containers_due_to_divert
RECURSIVE VisitAncestors(_, _, _, _, _, _)
VisitAncestors(S, m, child, anc, all_start, prev) ==
    IF m.exc # "" \/ anc = 0 THEN m
    ELSE IF anc \in prev /\ ~count_at_start_only(S, anc) THEN m
    ELSE LET entering == /\ Len(Content(S, anc)) > 0
                         /\ ObjEq(S, child, ChildObj(S, anc, 0))
                         /\ all_start
         IN VisitAncestors(S, visit_container(S, m, anc, entering),
                           ContainerObj(anc), ParentOf(S, anc),
                           all_start /\ entering, prev)

\* Story.visit_changed_containers_due_to_divert from the walk up the
\* ancestors: pr is the previous pointer, pres what it resolves to, cres what
\* the current pointer resolves to
VisitChanged(S, m, pr, pres, cres) ==
    IF pres.exc # "" THEN Raise(m, pres.exc)
    ELSE IF cres.exc # "" THEN Raise(m, cres.exc)
    ELSE IF cres.obj.kind = "item" /\ ItemBoolRaises(ItemOf(S, cres.obj))
         THEN Raise(m, "RuntimeError")
    ELSE IF ~ObjTruthy(S, cres.obj) THEN m
    ELSE VisitAncestors(S, m, cres.obj, ObjParent(S, cres.obj), TRUE,
                        IF ~PtrTruthy(m, pr) THEN {}
                        ELSE IF pres.obj.kind = "container"
                             THEN AncestorsFrom(S, pres.obj.c)
                        ELSE AncestorsFrom(S, m.heap[pr].c))

\* Story.visit_changed_containers_due_to_divert
visit_changed_containers_due_to_divert(S, m) ==
    LET pr == previous_pointer(m)
        p == current_pointer(m)
    IN IF m.exc # "" THEN m
       ELSE IF ~PtrTruthy(m, p) \/ m.heap[p].i = -1 THEN m
       ELSE VisitChanged(S, m, pr,
                         IF PtrTruthy(m, pr)
                         THEN PointerResolve(S, m.heap[pr].c, m.heap[pr].i)
                         ELSE [exc |-> "", obj |-> NoObject],
                         PointerResolve(S, m.heap[p].c, m.heap[p].i))

\* list.index(container) in the parent's content, 0-based
IndexInParent(S, c) ==
    (CHOOSE j \in 1..Len(Content(S, ParentOf(S, c))) :
        Content(S, ParentOf(S, c))[j] = ContainerRef(c)) - 1

\* the while loop of increment_content_pointer on the local pointer (c, i):
\* [ok, c, i, fresh]; fresh says the local is a Pointer made in the loop
RECURSIVE Ascend(_, _, _, _, _)
Ascend(S, c, i, ok, fresh) ==
    IF i >= Len(Content(S, c))
    THEN IF ParentOf(S, c) = 0
         THEN [ok |-> FALSE, c |-> c, i |-> i, fresh |-> fresh]
         ELSE Ascend(S, ParentOf(S, c), IndexInParent(S, c) + 1, TRUE, TRUE)
    ELSE [ok |-> ok, c |-> c, i |-> i, fresh |-> fresh]

\* Story.increment_content_pointer: pointer.index += 1 changes the Pointer
\* object in place, whoever else holds it
increment_content_pointer(S, m) ==
    LET r == current_pointer(m)
    IN IF m.exc # "" THEN m
       ELSE IF r = 0 \/ m.heap[r].c = 0 THEN Raise(m, "AttributeError")
       ELSE LET m1 == [m EXCEPT !.heap[r].i = @ + 1]
                a == Ascend(S, m1.heap[r].c, m1.heap[r].i, TRUE, FALSE)
            IN IF ~a.ok THEN SetCurrentPointer(m1, 0)
               ELSE IF ~a.fresh THEN m1
               ELSE SetCurrentPointer(Alloc(m1, a.c, a.i), NewRef(m1))

\* State.trim_whitespace_from_function_end: the loop body starts with
\* "if i >= function_start_point: break", true for every i of the range
trim_whitespace_from_function_end(m) == m

\* State.pop_callstack
pop_callstack(m, type) ==
    IF current_element(m).type = "Function"
    THEN CallStackPop(trim_whitespace_from_function_end(m), type)
    ELSE CallStackPop(m, type)

\* State.try_exit_function_eval_from_game
try_exit_function_eval_from_game(m) ==
    IF current_element(m).type = "FunctionEvaluationFromGame"
    THEN [SetCurrentPointer(m, 0) EXCEPT !.did_safe_exit = TRUE]
    ELSE m

\* Story.next_content, in the order of its statements
RECURSIVE next_content(_, _)

\* "if self.state.current_pointer: self.next_content()" after a pop
NextAfterPop(S, m) ==
    IF PtrTruthy(m, current_pointer(m)) THEN next_content(S, m) ELSE m

\* a variant of the function pop that never pushes Void
NextAfterPopFunction_NoVoid(S, m) == NextAfterPop(S, m)

\* after pop_callstack(PushPopType.Function): Void is pushed inside an
\* expression evaluation
NextAfterPopFunction(S, m) ==
    NextAfterPop(S, IF in_expression_evaluation(m)
                    THEN [m EXCEPT !.ev = Append(@, Void)]
                    ELSE m)

\* after increment_content_pointer: where it failed, a function or a thread
\* is popped, or the function evaluation from the game is left
NextAfterIncrement(S, m) ==
    IF m.exc # "" \/ current_pointer(m) # 0 THEN m
    ELSE IF can_pop(m, "Function")
         THEN NextAfterPopFunction(S, pop_callstack(m, "Function"))
    ELSE IF can_pop_thread(m) THEN NextAfterPop(S, pop_thread(m))
    ELSE try_exit_function_eval_from_game(m)

\* after the diverted pointer, if there was one (had_divert), was taken
NextAfterDivert(S, m, had_divert) ==
    IF m.exc # "" THEN m
    ELSE IF had_divert /\ PtrTruthy(m, current_pointer(m)) THEN m
    ELSE NextAfterIncrement(S, increment_content_pointer(S, m))

\* after "self.state.previous_pointer = self.state.current_pointer"
NextAfterSave(S, m) ==
    NextAfterDivert(S,
        IF PtrTruthy(m, m.diverted)
        THEN visit_changed_containers_due_to_divert(S,
               [SetCurrentPointer(Alloc(m, m.heap[m.diverted].c,
                                        m.heap[m.diverted].i),
                                  NewRef(m))
                  EXCEPT !.diverted = 0])
        ELSE m,
        PtrTruthy(m, m.diverted))

next_content(S, m) ==
    IF m.exc # "" THEN m
    ELSE NextAfterSave(S, SetPreviousPointer(m, current_pointer(m)))

(* ----------------------------------------------------------------------- *)
(* VariablesState and the temporary variables of the call stack            *)
(* ----------------------------------------------------------------------- *)
\* a is b, for two runtime objects
SameObject(a, b) == a.id # 0 /\ a.id = b.id

\* dict.get(name): None when the key is absent
DictGet(d, name) == IF name \in DOMAIN d /\ d[name] # Absent THEN d[name] ELSE NoneObj
HasKey(d, name) == name \in DOMAIN d /\ d[name] # Absent

\* VariablesState.variable_changed_event(name, value): the method returns
\* at once; the call is recorded
variable_changed_event(m, name, value) ==
    [m EXCEPT !.events = Append(@, [name |-> name, value |-> value])]

\* VariablesState.set_global (no patch).  "value != old_value" compares two
\* objects by identity.  Where it holds, the name joins the changed set if
\* batching is on and nothing else is done; the "else" belongs to the outer
\* "if", so variable_changed_event is called where the value is the old
\* object.
set_global(m, name, value) ==
    LET old == DictGet(m.globals, name)
        m1 == [m EXCEPT !.globals[name] = value]
    IN IF ~SameObject(value, old)
       THEN IF m.batch THEN [m1 EXCEPT !.changed = @ \cup {name}] ELSE m1
       ELSE variable_changed_event(m1, name, value)

\* the loop of the batch_observing_variable_changes setter over the changed
\* names (a set: the order of the calls is not fixed by the code, the model
\* takes one order)
RECURSIVE FireChanged(_, _)
FireChanged(m, names) ==
    IF names = {} \/ m.exc # "" THEN m
    ELSE LET name == CHOOSE n \in names : TRUE
         IN IF ~HasKey(m.globals, name) THEN Raise(m, "KeyError")
            ELSE FireChanged(variable_changed_event(m, name, m.globals[name]),
                             names \ {name})

\* VariablesState.batch_observing_variable_changes (setter): switching off
\* calls variable_changed_event for every changed name; the changed set is
\* cleared whatever the value
SetBatchObservingVariableChanges(m, value) ==
    LET m1 == IF value THEN [m EXCEPT !.batch = value]
              ELSE FireChanged([m EXCEPT !.batch = value], m.changed)
    IN IF m1.exc # "" THEN m1 ELSE [m1 EXCEPT !.changed = {}]

\* VariablesState.global_variable_exists_with_name
global_variable_exists_with_name(m, name) ==
    HasKey(m.globals, name) \/ HasKey(m.defaults, name)

\* CallStack.get_temporary_variable_with_name, index -1
get_temporary_variable_with_name(m, name) == DictGet(current_element(m).temps, name)

\* VariablesState.get_raw_variable_with_name and get_variable_with_name,
\* index -1, no patch
get_variable_with_name(m, name) ==
    IF DictGet(m.globals, name).k # "none" THEN DictGet(m.globals, name)
    ELSE IF DictGet(m.defaults, name).k # "none" THEN DictGet(m.defaults, name)
    ELSE get_temporary_variable_with_name(m, name)

\* CallStack.set_temporary_variable, index -1
set_temporary_variable(m, name, value, declare_new) ==
    IF ~declare_new /\ HasKey(current_element(m).temps, name)
    THEN Raise(m, "RuntimeError")
    ELSE SetCurElement(m, [current_element(m) EXCEPT !.temps[name] = value])

\* VariablesState.assign: a new declaration always sets a global
assign(m, a, value) ==
    LET sg == IF a.a THEN TRUE ELSE global_variable_exists_with_name(m, a.s)
    IN IF sg THEN set_global(m, a.s, value)
       ELSE set_temporary_variable(m, a.s, value, a.a)

\* VariablesState.snapshot_default_globals
snapshot_default_globals(m) == [m EXCEPT !.defaults = m.globals]

\* Host (Python) values: a bool, an int, a float, a str, None
PyBool(v) == [Blank EXCEPT !.k = "pybool", !.a = v]
PyInt(i) == [Blank EXCEPT !.k = "pyint", !.n = i]
PyFloat(i) == [Blank EXCEPT !.k = "pyfloat", !.n = i]
PyStr(txt) == [Blank EXCEPT !.k = "pystr", !.t = txt]
PyNone == [Blank EXCEPT !.k = "pynone"]

\* bool(v) of a host value
PyTruthy(v) ==
    CASE v.k = "pybool" -> v.a
      [] v.k = "pyint" -> v.n # 0
      [] v.k = "pyfloat" -> v.n # 0
      [] v.k = "pystr" -> Len(v.t) > 0
      [] OTHER -> FALSE

\* Value.create for a host value; None (and any other type) gives None
ValueCreate(v) ==
    IF v.k = "pybool" THEN BoolValue(v.a)
    ELSE IF v.k = "pyint" THEN IntValue(v.n)
    ELSE IF v.k = "pyfloat" THEN FloatValue(v.n)
    ELSE IF v.k = "pystr" THEN StringValue(v.t)
    ELSE NoneObj

\* Value.value: the host value a Value object holds
ValueOf(o) ==
    IF o.k = "bool" THEN PyBool(o.a)
    ELSE IF o.k = "int" THEN PyInt(o.n)
    ELSE IF o.k = "float" THEN PyFloat(o.n)
    ELSE IF o.k = "str" THEN PyStr(o.t)
    ELSE PyNone

\* the identities of the objects the state holds in its variables and on
\* its evaluation stack
LiveIds(m) ==
    {m.globals[v].id : v \in VarNames} \cup {m.defaults[v].id : v \in VarNames}
    \cup {m.ev[j].id : j \in 1..Len(m.ev)}
    \cup UNION { UNION { {m.threads[j].callstack[e].temps[v].id : v \in VarNames}
                          : e \in 1..Len(m.threads[j].callstack) }
                  : j \in 1..Len(m.threads) }

\* the identity of an object made by the host call: the first negative
\* number no live object has
FreshId(m) ==
    0 - (CHOOSE k \in 1..(Cardinality(LiveIds(m)) + 1) :
            /\ (0 - k) \notin LiveIds(m)
            /\ \A j \in 1..(k - 1) : (0 - j) \in LiveIds(m))

\* VariablesState.__setitem__: Value.create makes a new object
VariablesSetItem(m, name, v) ==
    IF ~HasKey(m.defaults, name)
    THEN RaiseStory(m, "Cannot assign to a variable that hasn't been declared")
    ELSE IF ValueCreate(v).k = "none" THEN Raise(m, "RuntimeError")
    ELSE set_global(m, name, [ValueCreate(v) EXCEPT !.id = FreshId(m)])

\* VariablesState.__getitem__ (no patch): [exc, val]; the result is
\* "value and value.value or None"
VariablesGetItem(m, name) ==
    LET g == DictGet(m.globals, name)
        value == IF g.k = "none" THEN DictGet(m.defaults, name) ELSE g
    IN IF ItemBoolRaises(value) THEN [exc |-> "RuntimeError", val |-> PyNone]
       ELSE IF ItemTruthy(value) /\ PyTruthy(ValueOf(value))
            THEN [exc |-> "", val |-> ValueOf(value)]
       ELSE [exc |-> "", val |-> PyNone]

(* ----------------------------------------------------------------------- *)
(* Story.perform_logic_and_flow_control                                    *)
(* ----------------------------------------------------------------------- *)
PeekEv(m) == IF m.ev = <<>> THEN NoneObj ELSE m.ev[Len(m.ev)]

\* State.pop_evaluation_stack (count 1); the popped object is PeekEv
pop_evaluation_stack(m) ==
    IF m.exc # "" THEN m
    ELSE IF m.ev = <<>> THEN Raise(m, "RuntimeError")
    ELSE [m EXCEPT !.ev = SubSeq(@, 1, Len(@) - 1)]

\* State.push_evaluation_stack
push_evaluation_stack(m, o) == IF m.exc # "" THEN m ELSE [m EXCEPT !.ev = Append(@, o)]

IsValue(o) == o.k \in {"str", "int", "float", "bool", "divtarget"}

\* Story.is_truthy: the result, and the state after it
IsTruthyResult(o) == o.k # "divtarget" /\ IsValue(o) /\ ItemTruthy(o)
is_truthy(m, o) ==
    IF m.exc = "" /\ o.k = "divtarget"
    THEN add_error(m, "Shouldn't use a divert target as a conditional value", FALSE)
    ELSE m

\* str(n) of an integer
RECURSIVE Digits(_)
Digits(n) ==
    IF n < 0 THEN <<"-">> \o Digits(0 - n)
    ELSE IF n < 10
         THEN <<SubSeq(<<"0", "1", "2", "3", "4", "5", "6", "7", "8", "9">>,
                       n + 1, n + 1)[1]>>
    ELSE Digits(n \div 10) \o Digits(n % 10)

\* str(output) of a truthy value: IntValue.__str__ gives the digits,
\* FloatValue.__str__ gives "true", BoolValue.__repr__ gives "true", and a
\* StringValue has only Value.__repr__, the repr of its text (quoted)
StrOf(o) ==
    CASE o.k = "int" -> Digits(o.n)
      [] o.k = "float" -> <<"t", "r", "u", "e">>
      [] o.k = "bool" -> <<"t", "r", "u", "e">>
      [] OTHER -> <<"'">> \o o.t \o <<"'">>

\* Divert (fixed target, not external)
PerformDivert(S, m, d) ==
    LET cv == PeekEv(m)
        \* after the call stack push of a divert that pushes to the stack
        Pushed(m3) ==
            IF ~PtrTruthy(m3, m3.diverted)
            THEN add_error(m3, "Divert resolution failed", FALSE)
            ELSE m3
        \* after "self.state.diverted_pointer = content.target_pointer"
        Diverted(m2) ==
            Pushed(IF d.b THEN CallStackPush(m2, d.pt, 0, Len(m2.out)) ELSE m2)
        Targeted(m1, tp) ==
            IF tp.exc # "" THEN Raise(m1, tp.exc)
            ELSE Diverted([Alloc(m1, tp.c, tp.i) EXCEPT !.diverted = NewRef(m1)])
        \* after the condition of a conditional divert was popped
        Tested(m1) ==
            IF m1.exc # "" THEN m1
            ELSE IF d.a /\ ~IsTruthyResult(cv) THEN m1
            ELSE Targeted(m1, target_pointer(S, d))
    IN Tested(IF d.a THEN is_truthy(pop_evaluation_stack(m), cv) ELSE m)

\* State.visit_count_for_container: the exception it raises ("" for none)
\* and the count it returns.  State has no add_error.
VisitCountExc(S, c) ==
    IF c = 0 THEN "AttributeError"
    ELSE IF ~visits_should_be_counted(S, c) THEN "AttributeError"
    ELSE PathExc(S, ContainerObj(c))
visit_count_for_container(m, c) ==
    IF m.visit_counts[c] = -1 THEN 0 ELSE m.visit_counts[c]

\* the pop command that takes its value off the evaluation stack and leaves
\* the call stack as it is
PerformPop_KeepsFrame(m, cmd) ==
    IF cmd = "->->" THEN pop_evaluation_stack(m) ELSE m

\* PopFunction ("~ret") and PopTunnel ("->->")
PerformPop(m, cmd) ==
    LET pop_type == IF cmd = "~ret" THEN "Function" ELSE "Tunnel"
        value == PeekEv(m)
        override == pop_type = "Tunnel" /\ value.k = "divtarget"
        \* after the pop: an override divert target is then used
        Popped(m2) ==
            IF m2.exc = "" /\ override THEN Raise(m2, "RuntimeError") ELSE m2
        \* after the value of a tunnel return was taken off the stack
        Taken(m1) ==
            IF m1.exc # "" THEN m1
            ELSE IF pop_type = "Tunnel" /\ ~override /\ value.k # "void"
                 THEN Raise(m1, "AssertionError")
            ELSE Popped(IF current_element(m1).type = "FunctionEvaluationFromGame"
                        THEN try_exit_function_eval_from_game(m1)
                        ELSE IF current_element(m1).type # pop_type
                                \/ ~can_pop(m1, "")
                        THEN add_error(m1, "Found pop, when expected other", FALSE)
                        ELSE pop_callstack(m1, ""))
    IN Taken(IF pop_type = "Tunnel" THEN pop_evaluation_stack(m) ELSE m)

\* EvalOutput ("out") after the pop: "if output:" tests the truth of the
\* popped object, then its text goes to the output stream
EvalOutput(m, output) ==
    IF ItemBoolRaises(output) THEN Raise(m, "RuntimeError")
    ELSE IF ItemTruthy(output)
         THEN push_to_output_stream(m, StringValue(StrOf(output)))
    ELSE m

\* State.pop_from_output_stream
pop_from_output_stream(m, count) ==
    output_stream_dirty([m EXCEPT !.out = SubSeq(@, 1, Len(@) - count)])

\* the loop of EndString over reversed(output_stream) from the entry at
\* index j (from 0) down: the number of entries consumed and content_stack,
\* the texts in the order in which the loop meets them
RECURSIVE EndStringScan(_, _, _, _)
EndStringScan(out, j, consumed, content_stack) ==
    IF j < 0 THEN [consumed |-> consumed, content_stack |-> content_stack]
    ELSE IF IsControlCommand(out[j + 1]) /\ out[j + 1].s = "str"
         THEN [consumed |-> consumed + 1, content_stack |-> content_stack]
    ELSE EndStringScan(out, j - 1, consumed + 1,
                       IF IsStringValue(out[j + 1])
                       THEN content_stack \o out[j + 1].t
                       ELSE content_stack)

\* ControlCommand EndString; no object of class Tag is in a story, so
\* content_to_retain stays empty
EndString(m) ==
    LET r == EndStringScan(m.out, Len(m.out) - 1, 0, <<>>)
        m1 == pop_from_output_stream(m, r.consumed)
        m2 == SetCurElement(m1, [current_element(m1) EXCEPT !.in_expr = TRUE])
    IN push_evaluation_stack(m2, StringValue(r.content_stack))

\* ControlCommand.  EndTag, Random, SeedRandom and
\* SequenceShuffleIndex are outside the modelled command set; no story of
\* Stories contains them.  The remaining command types (NotSet and the list
\* commands) take the else branch.
PerformCommand(S, m, o) ==
    LET cmd == o.s
    IN CASE cmd = "ev" ->
              IF in_expression_evaluation(m) THEN Raise(m, "AssertionError")
              ELSE SetCurElement(m, [current_element(m) EXCEPT !.in_expr = TRUE])
         [] cmd = "/ev" ->
              IF ~in_expression_evaluation(m) THEN Raise(m, "AssertionError")
              ELSE SetCurElement(m, [current_element(m) EXCEPT !.in_expr = FALSE])
         [] cmd = "out" ->
              IF m.ev = <<>> THEN m
              ELSE EvalOutput(pop_evaluation_stack(m), PeekEv(m))
         [] cmd = "nop" -> m
         [] cmd = "du" ->
              IF m.ev = <<>> THEN Raise(m, "IndexError")
              ELSE push_evaluation_stack(m, PeekEv(m))
         [] cmd = "pop" -> pop_evaluation_stack(m)
         [] cmd \in {"~ret", "->->"} -> PerformPop(m, cmd)
         [] cmd = "str" ->
              LET Pushed(m1) ==
                      IF ~in_expression_evaluation(m1) THEN Raise(m1, "AssertionError")
                      ELSE SetCurElement(m1, [current_element(m1) EXCEPT
                                                 !.in_expr = FALSE])
              IN Pushed(push_to_output_stream(m, o))
         [] cmd = "/str" -> EndString(m)
         [] cmd = "#" -> push_to_output_stream(m, o)
         [] cmd = "choiceCnt" -> push_evaluation_stack(m, IntValue(Len(m.choices)))
         [] cmd = "turn" -> push_evaluation_stack(m, IntValue(m.turn + 1))
         [] cmd \in {"turns", "readc"} ->
              LET Popped(m1, target) ==
                      IF m1.exc # "" THEN m1
                      ELSE IF target.k # "divtarget"
                           THEN RaiseStory(m1, "TURNS_SINCE expected a divert target")
                      ELSE Raise(m1, "AttributeError")
              IN Popped(pop_evaluation_stack(m), PeekEv(m))
         [] cmd = "visit" ->
              LET c == m.heap[current_pointer(m)].c
              IN IF VisitCountExc(S, c) # "" THEN Raise(m, VisitCountExc(S, c))
                 ELSE push_evaluation_stack(m,
                          IntValue(visit_count_for_container(m, c) - 1))
         [] cmd = "thread" -> m
         [] cmd = "done" ->
              IF can_pop_thread(m) THEN pop_thread(m)
              ELSE [SetCurrentPointer(m, 0) EXCEPT !.story_did_safe_exit = TRUE]
         [] cmd = "end" -> force_end(m)
         [] OTHER -> add_error(m, "Unhandled control command", FALSE)

\* VariableReference by name
PerformVariableReference(m, o) ==
    LET value == get_variable_with_name(m, o.s)
        m1 == IF value.k = "none" THEN add_error(m, "Variable not found", TRUE)
              ELSE m
    IN push_evaluation_stack(m1, value)

\* the return value of perform_logic_and_flow_control
IsLogicOrFlowControl(o) == o.k \in {"divert", "cmd", "assign", "varref"}

perform_logic_and_flow_control(S, m, o) ==
    IF m.exc # "" THEN m
    ELSE CASE o.k = "divert" -> PerformDivert(S, m, o)
           [] o.k = "cmd" -> PerformCommand(S, m, o)
           [] o.k = "assign" -> IF m.ev = <<>> THEN Raise(m, "RuntimeError")
                                ELSE assign(pop_evaluation_stack(m), o, PeekEv(m))
           [] o.k = "varref" -> PerformVariableReference(m, o)
           [] OTHER -> m

(* ----------------------------------------------------------------------- *)
(* Choices and chosen paths (Story, State)                                 *)
(* ----------------------------------------------------------------------- *)
\* ChoicePoint.__init__ and the flags setter: without a "flg" value the
\* parser leaves the defaults (once_only only)
ChoiceFlags(flg) ==
    IF flg = 0
    THEN [has_condition |-> FALSE, has_start_content |-> FALSE,
          has_choice_only_content |-> FALSE, is_invisible_default |-> FALSE,
          once_only |-> TRUE]
    ELSE [has_condition |-> (flg % 2) = 1,
          has_start_content |-> ((flg \div 2) % 2) = 1,
          has_choice_only_content |-> ((flg \div 4) % 2) = 1,
          is_invisible_default |-> ((flg \div 8) % 2) = 1,
          once_only |-> ((flg \div 16) % 2) = 1]

\* str.strip(" ").strip("\t") on a text
RECURSIVE StripChar(_, _)
StripChar(t, ch) ==
    IF t # <<>> /\ Head(t) = ch THEN StripChar(Tail(t), ch)
    ELSE IF t # <<>> /\ t[Len(t)] = ch THEN StripChar(SubSeq(t, 1, Len(t) - 1), ch)
    ELSE t

\* the while loop of pop_choice_string_and_tags on the evaluation stack ev
\* left by the pop of the string: a Tag is popped while more than one entry
\* is on the stack.  [ev, tags], the tags in the order tags.insert(0, ...)
\* leaves them
RECURSIVE PopTags(_, _)
PopTags(ev, tags) ==
    IF Len(ev) > 1 /\ ev[Len(ev)].k = "tag"
    THEN PopTags(SubSeq(ev, 1, Len(ev) - 1), <<ev[Len(ev)].t>> \o tags)
    ELSE [ev |-> ev, tags |-> tags]

\* pop_choice_string_and_tags without the loop that pops the Tags
pop_choice_string_and_tags_KeepTags(m) ==
    LET v == PeekEv(m)
        m1 == pop_evaluation_stack(m)
    IN IF m1.exc # "" THEN m1
       ELSE IF ~IsValue(v) THEN Raise(m1, "AttributeError")
       ELSE m1

\* Story.pop_choice_string_and_tags: the state after it; its text is
\* PeekEv(m).t and its tags are ChoiceTags(m)
pop_choice_string_and_tags(m) ==
    LET v == PeekEv(m)
        m1 == pop_evaluation_stack(m)
    IN IF m1.exc # "" THEN m1
       ELSE IF ~IsValue(v) THEN Raise([m1 EXCEPT !.ev = PopTags(@, <<>>).ev],
                                      "AttributeError")
       ELSE [m1 EXCEPT !.ev = PopTags(@, <<>>).ev]

ChoiceTags(m) ==
    IF m.ev = <<>> THEN <<>> ELSE PopTags(SubSeq(m.ev, 1, Len(m.ev) - 1), <<>>).tags

\* Story.process_choice for the ChoicePoint at object o (an object of kind
\* "free" is a ChoicePoint in no container); a generated choice is appended
\* to the choices by step
process_choice(S, m, o) ==
    LET \* for the ChoicePoint cp with the flags fl
        Process(cp, fl) ==
            LET cond == PeekEv(m)
                show1 == ~fl.has_condition \/ IsTruthyResult(cond)
                \* after call_stack.fork_thread(): the Choice is made
                Forked(m4, start, only, tags) ==
                    [m4 EXCEPT !.choices = Append(@,
                        [target_path |-> cp.p,
                         is_invisible_default |-> fl.is_invisible_default,
                         tags |-> tags,
                         text |-> StripChar(StripChar(start \o only, " "), "\t"),
                         thread |-> CurThread(m4)])]
                \* with the result tres of resolving the choice target and
                \* the container it names
                Resolved(m3, start, only, tags, tres, target) ==
                    LET vexc == IF tres.exc # "" THEN tres.exc
                                ELSE VisitCountExc(S, target)
                        show == show1 /\ ~(/\ fl.once_only
                                           /\ visit_count_for_container(m3, target) > 0)
                    IN IF m3.exc # "" THEN m3
                       ELSE IF fl.once_only /\ vexc # "" THEN Raise(m3, vexc)
                       ELSE IF ~show THEN m3
                       ELSE IF cp.p.rel THEN Raise(m3, "AssertionError")
                       ELSE IF PathExc(S, o) # "" THEN Raise(m3, PathExc(S, o))
                       ELSE Forked(push_thread(m3), start, only, tags)
                Targeted(m3, start, only, tags, tres) ==
                    Resolved(m3, start, only, tags, tres, ResultContainer(tres.res))
                \* after the start content was popped
                StartPopped(m3, start, only, tags) ==
                    Targeted(m3, start, only, tags, resolve_path(S, cp.p))
                \* after the choice-only content was popped: the tags of the
                \* start content are assigned to the same name tags
                OnlyPopped(m2, only, tags) ==
                    StartPopped(IF m2.exc = "" /\ fl.has_start_content
                                THEN pop_choice_string_and_tags(m2) ELSE m2,
                                IF fl.has_start_content THEN PeekEv(m2).t ELSE <<>>,
                                only,
                                IF fl.has_start_content THEN ChoiceTags(m2) ELSE tags)
                \* after the condition was popped
                Tested(m1) ==
                    OnlyPopped(IF m1.exc = "" /\ fl.has_choice_only_content
                               THEN pop_choice_string_and_tags(m1) ELSE m1,
                               IF fl.has_choice_only_content THEN PeekEv(m1).t
                               ELSE <<>>,
                               IF fl.has_choice_only_content THEN ChoiceTags(m1)
                               ELSE <<>>)
            IN Tested(IF fl.has_condition
                      THEN is_truthy(pop_evaluation_stack(m), cond) ELSE m)
        At(cp) == Process(cp, ChoiceFlags(cp.n))
    IN At(IF o.kind = "free" THEN o.item ELSE ItemOf(S, o))

\* Story.pointer_at_path: the state after it (errors and warnings added);
\* the pointer it returns is PointerAtPathValue
PointerAtPathResult(S, path) ==
    IF path.comps[Len(path.comps)].index >= 0
    THEN content_at_path(S, 1, path, 0, Len(path.comps) - 1)
    ELSE content_at_path(S, 1, path, 0, -1)

PointerAtPathValue(S, path) ==
    IF path.comps = <<>> THEN [none |-> TRUE, c |-> 0, i |-> 0]
    ELSE [none |-> FALSE,
          c |-> ResultContainer(PointerAtPathResult(S, path)),
          i |-> path.comps[Len(path.comps)].index]

pointer_at_path(S, m, path) ==
    IF m.exc # "" \/ path.comps = <<>> THEN m
    ELSE LET used == IF path.comps[Len(path.comps)].index >= 0
                     THEN Len(path.comps) - 1 ELSE Len(path.comps)
             \* with the result of content_at_path
             Found(res) ==
                 IF res.obj.kind = "item" /\ ItemBoolRaises(ItemOf(S, res.obj))
                 THEN Raise(m, "RuntimeError")
                 ELSE IF ~ObjTruthy(S, res.obj)
                         \/ (res.obj = ContainerObj(1) /\ used > 0)
                      THEN add_error(m, "Failed to find content at path", FALSE)
                 ELSE IF res.approximate
                      THEN IF PathExc(S, res.obj) # ""
                           THEN Raise(m, PathExc(S, res.obj))
                           ELSE add_error(m,
                                    "Failed to find content at path, approximated",
                                    TRUE)
                 ELSE m
         IN Found(PointerAtPathResult(S, path))

\* State.set_chosen_path
set_chosen_path(S, m, path, incrementing_turn_index) ==
    LET \* "if incrementing_turn_index: self.current_turn_index += 1"
        Pointed(m2) ==
            IF incrementing_turn_index THEN [m2 EXCEPT !.turn = @ + 1] ELSE m2
        \* after pointer_at_path, which returned the pointer value pv
        Found(m1, pv) ==
            IF m1.exc # "" THEN m1
            ELSE Pointed(IF pv.none THEN SetCurrentPointer(m1, 0)
                         ELSE SetCurrentPointer(
                                Alloc(m1, pv.c,
                                      IF pv.c # 0 /\ pv.i = -1 THEN 0 ELSE pv.i),
                                NewRef(m1)))
    IN IF m.exc # "" THEN m
       ELSE Found(pointer_at_path(S, [m EXCEPT !.choices = <<>>], path),
                  PointerAtPathValue(S, path))

\* Story.choose_path
choose_path(S, m, path, incrementing_turn_index) ==
    visit_changed_containers_due_to_divert(S,
        set_chosen_path(S, m, path, incrementing_turn_index))

\* CallStack.current_thread (setter)
SetCurrentThread(m, th) ==
    IF m.exc # "" THEN m
    ELSE IF Len(m.threads) # 1 THEN Raise(m, "AssertionError")
    ELSE [m EXCEPT !.threads = <<th>>]

\* Story.try_follow_default_invisible_choice (no snapshot is ever held)
try_follow_default_invisible_choice(S, m) ==
    LET choices == current_choices(m)
        inv == SelectSeq(choices, LAMBDA c : c.is_invisible_default)
    IN IF m.exc # "" THEN m
       ELSE IF inv = <<>> \/ Len(choices) > Len(inv) THEN m
       ELSE choose_path(S, SetCurrentThread(m, inv[1].thread),
                        inv[1].target_path, FALSE)

\* choose_choice_index that counts the turn before it looks the choice up
choose_choice_index_TurnFirst(S, m, index) ==
    LET choices == current_choices(m)
        m0 == [m EXCEPT !.turn = @ + 1]
    IN IF index < 0 \/ index >= Len(choices) THEN Raise(m0, "RuntimeError")
       ELSE choose_path(S, SetCurrentThread(m0, choices[index + 1].thread),
                        choices[index + 1].target_path, FALSE)

\* Story.choose_choice_index: current_choices[index] with Python indexing
choose_choice_index(S, m, index) ==
    LET choices == current_choices(m)
        k == IF index < 0 THEN index + Len(choices) ELSE index
    IN IF k < 0 \/ k >= Len(choices) THEN Raise(m, "RuntimeError")
       ELSE choose_path(S, SetCurrentThread(m, choices[k + 1].thread),
                        choices[k + 1].target_path, TRUE)

(* ----------------------------------------------------------------------- *)
(* Story.step and Story.continue_single_step                               *)
(* ----------------------------------------------------------------------- *)
\* the while loop of step on the local pointer (c, i): containers are
\* entered at their start and visited; [m, c, i, fresh]
RECURSIVE Descend(_, _, _, _, _)
Descend(S, m, c, i, fresh) ==
    LET r == PointerResolve(S, c, i)
    IN IF r.exc # "" THEN [m |-> Raise(m, r.exc), c |-> c, i |-> i, fresh |-> fresh]
       ELSE IF r.obj.kind # "container" THEN [m |-> m, c |-> c, i |-> i, fresh |-> fresh]
       ELSE LET Visited(m1) ==
                    IF m1.exc # "" \/ Len(Content(S, r.obj.c)) = 0
                    THEN [m |-> m1, c |-> c, i |-> i, fresh |-> fresh]
                    ELSE Descend(S, m1, r.obj.c, 0, TRUE)
            IN Visited(visit_container(S, m, r.obj.c, TRUE))

\* Story.step after "self.state.current_pointer = pointer", in the order of
\* its statements; o is the object at the pointer and it its content.
\* After next_content: StartThread pushes a thread
StepMoved(m, it) ==
    IF m.exc = "" /\ it.k = "cmd" /\ it.s = "thread" THEN push_thread(m) ELSE m

\* after process_choice: content that is no logic, no choice point and no
\* container is added, then next_content
StepProcessed(S, m, o, it) ==
    StepMoved(next_content(S,
                  IF m.exc # "" \/ IsLogicOrFlowControl(it) \/ it.k = "choice"
                     \/ o.kind = "container"
                  THEN m
                  ELSE IF in_expression_evaluation(m)
                       THEN push_evaluation_stack(m, it)
                  ELSE push_to_output_stream(m, it)),
              it)

\* after perform_logic_and_flow_control
StepPerformed(S, m, o, it) ==
    IF m.exc # "" \/ ~PtrTruthy(m, current_pointer(m)) THEN m
    ELSE StepProcessed(S, IF it.k = "choice" THEN process_choice(S, m, o) ELSE m,
                       o, it)

\* with the result res of pointer.resolve()
StepResolved(S, m, res) ==
    IF res.exc # "" THEN Raise(m, res.exc)
    ELSE StepPerformed(S,
                       perform_logic_and_flow_control(S, m, ItemOf(S, res.obj)),
                       res.obj, ItemOf(S, res.obj))

StepContent(S, m) ==
    StepResolved(S, m, PointerResolve(S, m.heap[current_pointer(m)].c,
                                      m.heap[current_pointer(m)].i))

\* with the result d of the while loop: a Pointer made in the loop becomes
\* the current pointer
StepDescended(S, d) ==
    IF d.m.exc # "" THEN d.m
    ELSE StepContent(S, IF d.fresh
                        THEN SetCurrentPointer(Alloc(d.m, d.c, d.i), NewRef(d.m))
                        ELSE d.m)

\* Story.step
step(S, m) ==
    IF m.exc # "" \/ ~PtrTruthy(m, current_pointer(m)) THEN m
    ELSE StepDescended(S, Descend(S, m, m.heap[current_pointer(m)].c,
                                  m.heap[current_pointer(m)].i, FALSE))

\* Story.continue_single_step.  _state_snapshot_at_last_newline is None
\* throughout (state_snapshot is only called where it is already set), so
\* the result is always False; discard_snapshot calls State.apply_any_patch,
\* which State does not have.
\* After try_follow_default_invisible_choice
SingleStepFollowed(m) ==
    IF m.exc # "" THEN m
    ELSE IF ~in_string_evaluation(m) /\ output_stream_ends_in_newline(m)
            /\ ~can_continue(m)
         THEN Raise(m, "AttributeError")
    ELSE m

\* after step
SingleStepStepped(S, m) ==
    SingleStepFollowed(IF m.exc = "" /\ ~can_continue(m)
                          /\ current_element(m).type # "FunctionEvaluationFromGame"
                       THEN try_follow_default_invisible_choice(S, m)
                       ELSE m)

continue_single_step(S, m) == SingleStepStepped(S, step(S, m))

\* StoryException.message of the exception in flight (inkpy.runtime.exceptions
\* is not part of the snapshot): the message the exception was raised with
ExceptionMessage(m) == m.exc_msg

\* the except branch of the while loop of _continue: a StoryException is
\* caught, its message added as an error (e.message), and the loop is left
\* (broke); raised is the message of the exception caught
CatchStoryException(m) ==
    IF m.exc = "StoryException"
    THEN [m |-> add_error([m EXCEPT !.exc = "", !.exc_msg = ""],
                          ExceptionMessage(m), FALSE),
          broke |-> TRUE, raised |-> ExceptionMessage(m)]
    ELSE [m |-> m, broke |-> FALSE, raised |-> ""]

\* one iteration of the while loop of _continue
LoopIteration(S, m) == CatchStoryException(continue_single_step(S, m))

\* the whole while loop of _continue
RECURSIVE ContinueLoop(_, _)

\* after one iteration: "break", or the loop condition again
ContinueLoopNext(S, it) == IF it.broke THEN it.m ELSE ContinueLoop(S, it.m)

ContinueLoop(S, m) ==
    IF m.exc # "" \/ ~can_continue(m) THEN m
    ELSE ContinueLoopNext(S, LoopIteration(S, m))

(* ----------------------------------------------------------------------- *)
(* Construction: Story.__init__, reset_state, State.__init__, reset_globals*)
(* ----------------------------------------------------------------------- *)
\* State.__init__: heap[1] is CallStack.start_of_root, heap[2] the Pointer
\* goto_start makes.  _output_stream_text_dirty is not created.
NewState(S) ==
    [heap |-> << [c |-> 1, i |-> 0], [c |-> 1, i |-> 0] >>,
     threads |-> << [callstack |-> <<Element("Tunnel", 2)>>, index |-> -1,
                     prev |-> 0] >>,
     choices |-> <<>>, out |-> <<>>, ev |-> <<>>,
     errors |-> <<>>, warnings |-> <<>>,
     did_safe_exit |-> FALSE, story_did_safe_exit |-> FALSE,
     diverted |-> 0,
     visit_counts |-> [c \in Containers(S) |-> -1],
     turn |-> 0,
     globals |-> NoTemps, defaults |-> NoTemps,
     batch |-> FALSE, changed |-> {}, events |-> <<>>,
     text_dirty |-> "unset", cur_text |-> <<>>,
     exc |-> "", exc_msg |-> "",
     entries |-> [c \in Containers(S) |-> 0]]

\* _continue after the while loop, as reset_globals runs it: no handler is
\* registered yet, so accumulated errors or warnings raise StoryException
ConstructorContinueEnd(m) ==
    IF m.exc # "" THEN m
    ELSE IF has_error(m) \/ has_warning(m)
         THEN RaiseStory(m, "Ink had errors or warnings")
    ELSE m

\* _continue() as reset_globals calls it
ConstructorContinue(S, m) ==
    IF m.exc # "" THEN m
    ELSE IF ~can_continue(m) THEN Raise(m, "RuntimeError")
    ELSE ConstructorContinueEnd(
             ContinueLoop(S, [reset_output(m) EXCEPT !.did_safe_exit = FALSE,
                                                     !.batch = TRUE]))

\* "self.state.current_pointer = original_pointer" and the snapshot of the
\* default globals
RestoreOriginalPointer(m, original) ==
    IF m.exc # "" THEN m
    ELSE snapshot_default_globals(SetCurrentPointer(m, original))

\* Story.reset_globals: original_pointer is a copy of the current pointer
reset_globals(S, m) ==
    IF NamedContentGet(S, 1, "global decl") # 0
    THEN RestoreOriginalPointer(
             ConstructorContinue(S,
                 choose_path(S, Alloc(m, m.heap[current_pointer(m)].c,
                                      m.heap[current_pointer(m)].i),
                             AbsName("global decl"), FALSE)),
             NewRef(m))
    ELSE snapshot_default_globals(m)

(* ----------------------------------------------------------------------- *)
(* Pointer objects no reference reaches are dropped and the rest numbered  *)
(* in the order the state reaches them, so that two states that differ     *)
(* only in heap addresses are one state.                                   *)
(* ----------------------------------------------------------------------- *)
ThreadRefs(th) == [j \in 1..Len(th.callstack) |-> th.callstack[j].ptr] \o <<th.prev>>

RECURSIVE ThreadsRefs(_)
ThreadsRefs(ths) ==
    IF ths = <<>> THEN <<>> ELSE ThreadRefs(Head(ths)) \o ThreadsRefs(Tail(ths))

AllRefs(m) ==
    <<1>> \o ThreadsRefs(m.threads) \o <<m.diverted>>
          \o ThreadsRefs([j \in 1..Len(m.choices) |-> m.choices[j].thread])

RECURSIVE FirstOccurrences(_, _)
FirstOccurrences(seq, acc) ==
    IF seq = <<>> THEN acc
    ELSE IF Head(seq) = 0 \/ (\E j \in 1..Len(acc) : acc[j] = Head(seq))
         THEN FirstOccurrences(Tail(seq), acc)
    ELSE FirstOccurrences(Tail(seq), Append(acc, Head(seq)))

Renumber(order, r) ==
    IF r = 0 THEN 0 ELSE CHOOSE j \in 1..Len(order) : order[j] = r

RenumberThread(order, th) ==
    [callstack |-> [j \in 1..Len(th.callstack) |->
                       [th.callstack[j] EXCEPT !.ptr = Renumber(order, @)]],
     index |-> th.index,
     prev |-> Renumber(order, th.prev)]

Canon(m) ==
    LET Ordered(order) ==
            [m EXCEPT
               !.heap = [j \in 1..Len(order) |-> m.heap[order[j]]],
               !.threads = [j \in 1..Len(m.threads) |->
                               RenumberThread(order, m.threads[j])],
               !.diverted = Renumber(order, m.diverted),
               !.choices = [j \in 1..Len(m.choices) |->
                               [m.choices[j] EXCEPT
                                   !.thread = RenumberThread(order, @)]]]
    IN Ordered(FirstOccurrences(AllRefs(m), <<>>))

\* the State of a newly constructed Story
Construct(S) == Canon(reset_globals(S, NewState(S)))

(* ----------------------------------------------------------------------- *)
(* The host and the Story object                                           *)
(*   sid       which story of Stories the Story was constructed from       *)
(*   m         the runtime state                                           *)
(*   on_error  Story._on_error: "none", or the kind of the handler         *)
(*   pc        "idle" between host calls, "loop" inside the while loop of  *)
(*             _continue, "exit" after the loop was left by break          *)
(*   ret       what the last host call did: its result or exception, and   *)
(*             the handler calls made; for continue_(), also the global    *)
(*             variables as they were when it was called; read tells that  *)
(*             the call evaluated State.current_text; threads_at_push is   *)
(*             the thread list before a CallStack.push                     *)
(*   transcript  history: the texts continue_() returned, concatenated     *)
(*   io        the story file at hand and what was loaded and dumped from   *)
(*             it; the two Path objects last built and compared            *)
(* ----------------------------------------------------------------------- *)
VARIABLES sid, m, on_error, recursive_continue_count, async_continue_active,
          has_validated_externals, pc, ret, transcript, io

vars == <<sid, m, on_error, recursive_continue_count, async_continue_active,
          has_validated_externals, pc, ret, transcript, io>>

Story == Stories[sid]

\* The handlers a host registers: "one" takes (message), as OnError declares
\* and the fixture of tests/runtime/conftest.py defines; "two" takes
\* (message, is_warning=False), as tests/utils.py defines.  Both return
\* normally.
HandlerKinds == {"one", "two"}

HostValues == {PyInt(0), PyInt(7), PyBool(FALSE), PyBool(TRUE),
               PyStr(<<>>), PyStr(<<"a">>), PyFloat(0), PyFloat(1), PyNone}

NoRet == [op |-> "none", exc |-> "", text |-> <<>>, val |-> PyNone,
          name |-> "", index |-> 0, errs |-> <<>>, warns |-> <<>>,
          calls |-> <<>>, steps |-> 0, steps_at_error |-> -1, raised |-> "",
          globals_at_entry |-> NoTemps, read |-> FALSE,
          threads_at_push |-> <<>>]

\* no story file at hand
NoIO == [op |-> "none"]

Init ==
    /\ sid \in 1..Len(Stories)
    /\ m = Construct(Stories[sid])
    /\ m.exc = ""
    /\ on_error = "none"
    /\ recursive_continue_count = 0
    /\ async_continue_active = FALSE
    /\ has_validated_externals = FALSE
    /\ pc = "idle"
    /\ ret = NoRet
    /\ transcript = <<>>
    /\ io = NoIO

\* Story.on_error(f)
RegisterOnError(kind) ==
    /\ pc = "idle"
    /\ on_error' = kind
    /\ ret' = [NoRet EXCEPT !.op = "on_error"]
    /\ UNCHANGED <<io, sid, m, recursive_continue_count, async_continue_active,
                   has_validated_externals, pc, transcript>>

\* continue_async(limit_async) up to the while loop of _continue;
\* continue_() is continue_async(0.0).  limit_async is 0 or a positive
\* number of seconds.
ContinueEnter(limit_async) ==
    /\ pc = "idle"
    /\ recursive_continue_count < MaxContinueCount
    /\ has_validated_externals' = TRUE
    /\ recursive_continue_count' = recursive_continue_count + 1
    /\ async_continue_active' = IF ~async_continue_active THEN limit_async > 0
                                ELSE async_continue_active
    /\ UNCHANGED <<io, sid, on_error, transcript>>
    /\ IF ~async_continue_active /\ ~can_continue(m)
       THEN /\ ret' = [NoRet EXCEPT !.op = "continue", !.exc = "RuntimeError"]
            /\ UNCHANGED <<m, pc>>
       ELSE /\ m' = IF ~async_continue_active
                    THEN [reset_output(m) EXCEPT
                             !.did_safe_exit = FALSE,
                             !.events = <<>>,
                             !.batch = IF recursive_continue_count' = 1
                                       THEN TRUE ELSE @]
                    ELSE [m EXCEPT !.events = <<>>]
            /\ pc' = "loop"
            /\ ret' = [NoRet EXCEPT !.op = "continue",
                                    !.globals_at_entry = m.globals]

\* one iteration of the while loop of _continue
ContinueStep ==
    /\ pc = "loop"
    /\ can_continue(m)
    /\ Len(m.out) < MaxOut
    /\ \E it \in {LoopIteration(Story, m)} :
          /\ IF it.m.exc # ""
             THEN /\ m' = Canon([it.m EXCEPT !.exc = "", !.exc_msg = ""])
                  /\ pc' = "idle"
                  /\ ret' = [ret EXCEPT !.exc = it.m.exc, !.steps = @ + 1]
             ELSE /\ m' = Canon(it.m)
                  \* "if self._async_continue_active and elapsed >
                  \* limit_async: break": the time that has passed is not
                  \* fixed by the program
                  /\ pc' \in IF it.broke THEN {"exit"}
                             ELSE IF async_continue_active THEN {"loop", "exit"}
                             ELSE {"loop"}
                  /\ ret' = [ret EXCEPT !.steps = @ + 1,
                                !.steps_at_error = IF it.broke THEN ret.steps + 1
                                                   ELSE @,
                                !.raised = IF it.broke THEN it.raised ELSE @]
    /\ UNCHANGED <<io, sid, on_error, recursive_continue_count,
                   async_continue_active, has_validated_externals, transcript>>

\* the calls _continue makes to the handler: every error with (error), then
\* every warning with (warning, True); a handler of one parameter raises
\* TypeError on the first warning
HandlerCalls(kind, errs, warns) ==
    [j \in 1..Len(errs) |-> [msg |-> errs[j], is_warning |-> FALSE]]
    \o (IF kind = "two"
        THEN [j \in 1..Len(warns) |-> [msg |-> warns[j], is_warning |-> TRUE]]
        ELSE <<>>)

\* _continue after the while loop, and the return of continue_()
ContinueExit ==
    /\ \/ pc = "exit"
       \/ pc = "loop" /\ ~can_continue(m)
    /\ recursive_continue_count' = recursive_continue_count - 1
    /\ pc' = "idle"
    /\ UNCHANGED <<io, sid, on_error, async_continue_active,
                   has_validated_externals>>
    /\ LET r0 == [ret EXCEPT !.errs = m.errors, !.warns = m.warnings]
       IN IF has_error(m) \/ has_warning(m)
          THEN IF on_error = "none"
               THEN /\ ret' = [r0 EXCEPT !.exc = "StoryException"]
                    /\ m' = m
               ELSE IF on_error = "one" /\ has_warning(m)
               THEN /\ ret' = [r0 EXCEPT !.exc = "TypeError",
                                  !.calls = HandlerCalls(on_error, m.errors, m.warnings)]
                    /\ m' = m
               ELSE LET m1 == current_text(reset_errors(m))
                    IN /\ m' = [m1 EXCEPT !.exc = ""]
                       /\ ret' = [r0 EXCEPT !.exc = m1.exc, !.text = m1.cur_text,
                                     !.read = TRUE,
                                     !.calls = HandlerCalls(on_error, m.errors, m.warnings)]
          ELSE LET m1 == current_text(m)
               IN /\ m' = [m1 EXCEPT !.exc = ""]
                  /\ ret' = [r0 EXCEPT !.exc = m1.exc, !.text = m1.cur_text,
                                !.read = TRUE]
    /\ transcript' = IF ret'.exc = "" THEN transcript \o ret'.text ELSE transcript

\* Story.choose_choice_index(index)
ChooseChoiceIndex(index) ==
    /\ pc = "idle"
    /\ \E m1 \in {choose_choice_index(Story, [m EXCEPT !.events = <<>>], index)} :
          /\ m' = Canon([m1 EXCEPT !.exc = "", !.exc_msg = ""])
          /\ ret' = [NoRet EXCEPT !.op = "choose", !.exc = m1.exc, !.index = index]
    /\ UNCHANGED <<io, sid, on_error, recursive_continue_count,
                   async_continue_active, has_validated_externals, pc, transcript>>

\* story.variables_state[name] = v
SetVariable(name, v) ==
    /\ pc = "idle"
    /\ LET m1 == VariablesSetItem([m EXCEPT !.events = <<>>], name, v)
       IN /\ m' = [m1 EXCEPT !.exc = "", !.exc_msg = ""]
          /\ ret' = [NoRet EXCEPT !.op = "set", !.exc = m1.exc, !.name = name,
                                  !.val = v]
    /\ UNCHANGED <<io, sid, on_error, recursive_continue_count,
                   async_continue_active, has_validated_externals, pc, transcript>>

\* story.state.current_text, read by the host
ReadCurrentText ==
    /\ pc = "idle"
    /\ LET m1 == current_text(m)
       IN /\ m' = [m1 EXCEPT !.exc = "", !.exc_msg = ""]
          /\ ret' = [NoRet EXCEPT !.op = "text", !.exc = m1.exc,
                                  !.text = m1.cur_text, !.read = TRUE]
    /\ UNCHANGED <<io, sid, on_error, recursive_continue_count,
                   async_continue_active, has_validated_externals, pc, transcript>>

\* story.state.variables_state.batch_observing_variable_changes = value
SetBatchObserving(value) ==
    /\ pc = "idle"
    /\ LET m1 == SetBatchObservingVariableChanges([m EXCEPT !.events = <<>>], value)
       IN /\ m' = [m1 EXCEPT !.exc = "", !.exc_msg = ""]
          /\ ret' = [NoRet EXCEPT !.op = "batch", !.exc = m1.exc]
    /\ UNCHANGED <<io, sid, on_error, recursive_continue_count,
                   async_continue_active, has_validated_externals, pc, transcript>>

\* story.variables_state[name]
GetVariable(name) ==
    /\ pc = "idle"
    /\ LET r == VariablesGetItem(m, name)
       IN ret' = [NoRet EXCEPT !.op = "get", !.exc = r.exc, !.name = name,
                               !.val = r.val]
    /\ UNCHANGED <<io, sid, m, on_error, recursive_continue_count,
                   async_continue_active, has_validated_externals, pc, transcript>>

Next ==
    \/ \E kind \in HandlerKinds : RegisterOnError(kind)
    \/ ContinueEnter(0)
    \/ ContinueStep
    \/ ContinueExit
    \/ \E index \in (0 - MaxIndexArg - 1)..MaxIndexArg : ChooseChoiceIndex(index)
    \/ \E name \in VarNames : \E v \in HostValues : SetVariable(name, v)
    \/ \E name \in VarNames : GetVariable(name)
    \/ \E value \in BOOLEAN : SetBatchObserving(value)
    \/ ReadCurrentText

Spec == Init /\ [][Next]_vars

(* ----------------------------------------------------------------------- *)
(* The host that continues with a time budget: continue_async with a       *)
(* budget of 0 or a positive budget, and Story.if_async_we_cant, the guard *)
(* at the start of continue_maximally, reset_state, reset_callstack,       *)
(* start_profiling and copy_state_for_background_thread_save.              *)
(* ----------------------------------------------------------------------- *)
\* the budgets of continue_async: 0.0 and a positive number
AsyncLimits == {0, 1}

\* Story.if_async_we_cant(activity)
IfAsyncWeCant ==
    /\ pc = "idle"
    /\ ret' = [NoRet EXCEPT !.op = "if_async",
                            !.exc = IF async_continue_active THEN "RuntimeError"
                                    ELSE ""]
    /\ UNCHANGED <<io, sid, m, on_error, recursive_continue_count,
                   async_continue_active, has_validated_externals, pc, transcript>>

\* the stories the host continues with a budget
AsyncStories ==
    {StorySimple, StoryMultiline, StoryNoText, StoryError, StoryTunnel,
     StoryFunction}

InitAsync == Init /\ Story \in AsyncStories

\* story.continue_async(limit_async); the host stops calling once it has
\* read MaxTranscript characters
ContinueAsync(limit_async) ==
    /\ Len(transcript) < MaxTranscript
    /\ ContinueEnter(limit_async)

NextAsync ==
    \/ \E limit_async \in AsyncLimits : ContinueAsync(limit_async)
    \/ ContinueStep
    \/ ContinueExit
    \/ IfAsyncWeCant

SpecAsync == InitAsync /\ [][NextAsync]_vars

(* ----------------------------------------------------------------------- *)
(* CallStack.push and CallStack.pop on their own: the call stack of a new  *)
(* State is replaced by one drawn from a bounded set, and the host calls   *)
(* push, pop, push_thread, fork_thread and pop_thread of                   *)
(* state.call_stack and state.force_end().                                 *)
(* ----------------------------------------------------------------------- *)
PushPopTypes == {"Tunnel", "Function"}

\* the elements a call stack is built from; heap[1] and heap[2] are the two
\* Pointer objects of a new State
ElementInputs ==
    {[type |-> type, ptr |-> ptr, temps |-> temps, in_expr |-> in_expr,
      ev_height |-> -1, fn_start |-> -1] :
        type \in PushPopTypes, ptr \in {1, 2},
        temps \in {NoTemps, [NoTemps EXCEPT !["u"] = IntValue(5)]},
        in_expr \in BOOLEAN}

\* thread lists: the threads below the current one are as CallStack.reset
\* makes them, the current one holds any stack of 1..MaxDepth elements
ThreadsInputs ==
    {[j \in 1..n |->
        IF j < n
        THEN [callstack |-> <<Element("Tunnel", 1)>>,
              index |-> IF j = 1 THEN -1 ELSE j - 1, prev |-> 0]
        ELSE [callstack |-> cs, index |-> IF j = 1 THEN -1 ELSE j - 1,
              prev |-> 0]] :
        n \in 1..MaxThreads,
        cs \in UNION {[1..d -> ElementInputs] : d \in 1..MaxDepth}}

InitCallStack ==
    /\ sid = 1
    /\ \E ths \in ThreadsInputs : m = [NewState(Stories[sid]) EXCEPT !.threads = ths]
    /\ on_error = "none"
    /\ recursive_continue_count = 0
    /\ async_continue_active = FALSE
    /\ has_validated_externals = FALSE
    /\ pc = "idle"
    /\ ret = NoRet
    /\ transcript = <<>>
    /\ io = NoIO

\* state.call_stack.push(type)
Push(type) ==
    /\ Len(call_stack(m)) <= MaxDepth
    /\ m' = CallStackPush(m, type, 0, 0)
    /\ ret' = [NoRet EXCEPT !.op = "push", !.name = type,
                            !.threads_at_push = m.threads]
    /\ UNCHANGED <<io, sid, on_error, recursive_continue_count,
                   async_continue_active, has_validated_externals, pc, transcript>>

\* state.call_stack.pop(type); where the call before it was push(type), ret
\* keeps the thread list from before that push
Pop(type) ==
    /\ LET m1 == CallStackPop(m, type)
       IN /\ m' = [m1 EXCEPT !.exc = "", !.exc_msg = ""]
          /\ ret' = [NoRet EXCEPT !.op = "pop", !.name = type, !.exc = m1.exc,
                                  !.threads_at_push =
                                      IF ret.op = "push" /\ ret.name = type
                                      THEN ret.threads_at_push ELSE <<>>]
    /\ UNCHANGED <<io, sid, on_error, recursive_continue_count,
                   async_continue_active, has_validated_externals, pc, transcript>>

\* state.call_stack.push_thread()
PushThread ==
    /\ Len(m.threads) <= MaxThreads
    /\ m' = push_thread(m)
    /\ ret' = [NoRet EXCEPT !.op = "push_thread"]
    /\ UNCHANGED <<io, sid, on_error, recursive_continue_count,
                   async_continue_active, has_validated_externals, pc, transcript>>

\* state.call_stack.fork_thread(), as Story.process_choice calls it for the
\* Choice it generates; the thread returned is the one appended, and ret
\* keeps the thread list from before the call
ForkThread ==
    /\ Len(m.threads) <= MaxThreads
    /\ m' = push_thread(m)
    /\ ret' = [NoRet EXCEPT !.op = "fork_thread", !.threads_at_push = m.threads]
    /\ UNCHANGED <<io, sid, on_error, recursive_continue_count,
                   async_continue_active, has_validated_externals, pc, transcript>>

\* state.call_stack.pop_thread()
PopThread ==
    /\ \E m1 \in {pop_thread(m)} :
          /\ m' = [m1 EXCEPT !.exc = "", !.exc_msg = ""]
          /\ ret' = [NoRet EXCEPT !.op = "pop_thread", !.exc = m1.exc]
    /\ UNCHANGED <<io, sid, on_error, recursive_continue_count,
                   async_continue_active, has_validated_externals, pc, transcript>>

\* state.force_end()
ForceEnd ==
    /\ m' = Canon(force_end(m))
    /\ ret' = [NoRet EXCEPT !.op = "force_end"]
    /\ UNCHANGED <<io, sid, on_error, recursive_continue_count,
                   async_continue_active, has_validated_externals, pc, transcript>>

\* the type argument of pop: a type, or "" for None
PopTypes == PushPopTypes \cup {""}

NextCallStack ==
    \/ \E type \in PushPopTypes : Push(type)
    \/ \E type \in PopTypes : Pop(type)
    \/ PushThread
    \/ ForkThread
    \/ PopThread
    \/ ForceEnd

SpecCallStack == InitCallStack /\ [][NextCallStack]_vars

(* ----------------------------------------------------------------------- *)
(* CallStack.set_temporary_variable on its own: the host calls it once on  *)
(* the current element of a call stack drawn as above.                     *)
(* ----------------------------------------------------------------------- *)
TempValues == {IntValue(0), IntValue(7)}

\* state.call_stack.set_temporary_variable(name, value, declare_new); ret
\* keeps the thread list from before the call
SetTemporary(name, value, declare_new) ==
    /\ ret.op = "none"
    /\ \E m1 \in {set_temporary_variable(m, name, value, declare_new)} :
          /\ m' = [m1 EXCEPT !.exc = "", !.exc_msg = ""]
          /\ ret' = [NoRet EXCEPT !.op = "set_temporary", !.name = name,
                                  !.val = value, !.read = declare_new,
                                  !.exc = m1.exc, !.threads_at_push = m.threads]
    /\ UNCHANGED <<io, sid, on_error, recursive_continue_count,
                   async_continue_active, has_validated_externals, pc, transcript>>

NextTemps ==
    \E name \in VarNames, value \in TempValues, declare_new \in BOOLEAN :
        SetTemporary(name, value, declare_new)

SpecTemps == InitCallStack /\ [][NextTemps]_vars

(* ----------------------------------------------------------------------- *)
(* The story file, the loader and the dumper on their own.                 *)
(*                                                                         *)
(* A JSON token is a record: a string is a text (a sequence of             *)
(* characters), a list is the sequence of its elements, an object is the   *)
(* sequence of its members [key, val] in file order (json.loads builds a   *)
(* dict, which keeps that order).                                          *)
(* ----------------------------------------------------------------------- *)
JNull == [k |-> "jnull", t |-> <<>>, n |-> 0, items |-> <<>>]
JTrue == [k |-> "jtrue", t |-> <<>>, n |-> 0, items |-> <<>>]
JStr(txt) == [k |-> "jstr", t |-> txt, n |-> 0, items |-> <<>>]
JInt(i) == [k |-> "jint", t |-> <<>>, n |-> i, items |-> <<>>]
JList(items) == [k |-> "jlist", t |-> <<>>, n |-> 0, items |-> items]
JObj(members) == [k |-> "jobj", t |-> <<>>, n |-> 0, items |-> members]
Member(key, val) == [key |-> key, val |-> val]

\* dict.get(key): the value of the member key, JNull for None
ObjGet(obj, key) ==
    IF \E i \in DOMAIN obj.items : obj.items[i].key = key
    THEN obj.items[CHOOSE i \in DOMAIN obj.items : obj.items[i].key = key].val
    ELSE JNull

\* bool(token) of Python: None, the empty string, 0, the empty list and the
\* empty dict are false
JTruthy(tok) ==
    IF tok.k = "jnull" THEN FALSE
    ELSE IF tok.k = "jstr" THEN tok.t # <<>>
    ELSE IF tok.k = "jint" THEN tok.n # 0
    ELSE IF tok.k \in {"jlist", "jobj"} THEN tok.items # <<>>
    ELSE TRUE

\* the member keys and tokens of the encoding scheme
KeyFlags == <<"#", "f">>
KeyName == <<"#", "n">>
KeyDivert == <<"-", ">">>
KeyVar == <<"v", "a", "r">>
KeyConditional == <<"c">>
TokGlue == <<"<", ">">>

\* ControlCommand.CommandType: the members the story files here use, each
\* with its string value as a text
CommandType ==
    {[s |-> "done", t |-> <<"d", "o", "n", "e">>],
     [s |-> "end", t |-> <<"e", "n", "d">>],
     [s |-> "ev", t |-> <<"e", "v">>],
     [s |-> "/ev", t |-> <<"/", "e", "v">>],
     [s |-> "out", t |-> <<"o", "u", "t">>],
     [s |-> "nop", t |-> <<"n", "o", "p">>]}

(* ----------------------------------------------------------------------- *)
(* Path(string)                                                            *)
(* ----------------------------------------------------------------------- *)
\* str.split("."): the segments of txt from position i on, cur being the
\* segment read so far
RECURSIVE SplitDots(_, _, _)
SplitDots(txt, i, cur) ==
    IF i > Len(txt) THEN <<cur>>
    ELSE IF txt[i] = "." THEN <<cur>> \o SplitDots(txt, i + 1, <<>>)
    ELSE SplitDots(txt, i + 1, Append(cur, txt[i]))

DigitChars == <<"0", "1", "2", "3", "4", "5", "6", "7", "8", "9">>

\* int(component) succeeds: over the characters used here (letters, digits,
\* "^"), exactly for a non-empty run of digits
IsIntText(seg) ==
    /\ seg # <<>>
    /\ \A i \in DOMAIN seg : \E d \in DOMAIN DigitChars : DigitChars[d] = seg[i]

RECURSIVE IntOfText(_)
IntOfText(seg) ==
    IF seg = <<>> THEN 0
    ELSE 10 * IntOfText(SubSeq(seg, 1, Len(seg) - 1))
         + (CHOOSE d \in DOMAIN DigitChars : DigitChars[d] = seg[Len(seg)]) - 1

\* Path.__init__ with a string: a leading "." makes the path relative and is
\* dropped; each segment becomes an index component where int() takes it,
\* a name component otherwise.  The name of an index component is None
\* (<<>> here), the index of a name component -1.
PathFromString(txt) ==
    LET rel == txt # <<>> /\ txt[1] = "."
        segs == SplitDots(IF rel THEN SubSeq(txt, 2, Len(txt)) ELSE txt, 1, <<>>)
    IN Path([i \in DOMAIN segs |->
                IF IsIntText(segs[i]) THEN Component(<<>>, IntOfText(segs[i]))
                ELSE Component(segs[i], -1)],
            rel)

(* ----------------------------------------------------------------------- *)
(* JsonParser: the graph a story file is loaded into.  A container is a    *)
(* record holding its content (child containers by value), its             *)
(* named_content dict as the sequence of its entries [key, val], its name  *)
(* (<<>> for None) and the three count booleans.                           *)
(* ----------------------------------------------------------------------- *)
\* Container()
NewContainer ==
    [k |-> "Container", content |-> <<>>, named_content |-> <<>>,
     name |-> <<>>, visits_should_be_counted |-> FALSE,
     turn_index_should_be_counted |-> FALSE, count_at_start_only |-> FALSE]

IsContainer(obj) == obj.k = "Container"

\* NamedContent.has_valid_name
has_valid_name(obj) == obj.name # <<>>

\* named_content[key] = val
NamedSet(d, key, val) ==
    IF \E i \in DOMAIN d : d[i].key = key
    THEN [i \in DOMAIN d |-> IF d[i].key = key THEN Member(key, val) ELSE d[i]]
    ELSE Append(d, Member(key, val))

\* Container.add_content of one object: appended to the content and, where
\* it is a container with a valid name, registered in named_content
\* (try_add_named_content)
add_content(c, obj) ==
    LET c1 == [c EXCEPT !.content = Append(@, obj)]
    IN IF IsContainer(obj) /\ has_valid_name(obj)
       THEN [c1 EXCEPT !.named_content = NamedSet(@, obj.name, obj)]
       ELSE c1

RECURSIVE AddAll(_, _, _)
AddAll(c, objs, i) ==
    IF i > Len(objs) THEN c ELSE AddAll(add_content(c, objs[i]), objs, i + 1)

\* Container.count_flags (setter) on a container record
SetCountFlags(c, value) ==
    [c EXCEPT !.visits_should_be_counted = @ \/ CountFlagsSet(value).visits,
              !.turn_index_should_be_counted = @ \/ CountFlagsSet(value).turns,
              !.count_at_start_only = @ \/ CountFlagsSet(value).start_only]

\* Container.count_flags (getter)
count_flags(c) ==
    LET flags == (IF c.visits_should_be_counted THEN 1 ELSE 0)
                 + (IF c.turn_index_should_be_counted THEN 2 ELSE 0)
                 + (IF c.count_at_start_only THEN 4 ELSE 0)
    IN IF flags = 4 THEN 0 ELSE flags

\* Container.named_only_content (getter): named_content without the names
\* of the named containers in the content
named_only_content(c) ==
    SelectSeq(c.named_content,
              LAMBDA e : ~\E i \in DOMAIN c.content :
                            /\ IsContainer(c.content[i])
                            /\ has_valid_name(c.content[i])
                            /\ c.content[i].name = e.key)

RECURSIVE parse_token_to_object(_)

\* the loop of _parse_list_to_container over the members of the terminator
\* from member i on: "#f" sets the count flags, "#n" the name; any other
\* member is parsed into named_only_content, a local dict the function
\* never hands to the container
RECURSIVE ParseTerminator(_, _, _)
ParseTerminator(c, members, i) ==
    IF i > Len(members) THEN c
    ELSE IF members[i].key = KeyFlags
    THEN ParseTerminator(SetCountFlags(c, members[i].val.n), members, i + 1)
    ELSE IF members[i].key = KeyName
    THEN ParseTerminator([c EXCEPT !.name = members[i].val.t], members, i + 1)
    ELSE ParseTerminator(c, members, i + 1)

\* JsonParser._parse_list_to_container
parse_list_to_container(list) ==
    LET n == Len(list.items)
        objs == [i \in 1..(n - 1) |-> parse_token_to_object(list.items[i])]
        container == AddAll(NewContainer, objs, 1)
        terminator == list.items[n]
    IN IF JTruthy(terminator)
       THEN ParseTerminator(container, terminator.items, 1)
       ELSE container

\* the Divert branch of _parse_token_to_object for the key "->": a plain
\* divert, its target string read as the name of a variable where the
\* member "var" is true and as a path otherwise.  The variable name is kept
\* in t (<<>> for None), the path in p (<<>> for None).
ParseDivert(obj) ==
    LET target == ObjGet(obj, KeyDivert).t
        d == Divert(<<>>, FALSE, "Function", JTruthy(ObjGet(obj, KeyConditional)))
    IN IF JTruthy(ObjGet(obj, KeyVar))
       THEN [d EXCEPT !.t = target]
       ELSE [d EXCEPT !.p = PathFromString(target)]

\* JsonParser._parse_token_to_object, for the tokens of the story files
\* here: numbers, "^text", "\n", "<>", control commands, plain diverts and
\* lists; None gives None
parse_token_to_object(token) ==
    IF token.k = "jint" THEN ValueCreate(PyInt(token.n))
    ELSE IF token.k = "jstr"
    THEN IF token.t[1] = "^" THEN StringValue(SubSeq(token.t, 2, Len(token.t)))
         ELSE IF token.t = NL THEN StringValue(NL)
         ELSE IF token.t = TokGlue THEN Glue
         ELSE IF \E ct \in CommandType : ct.t = token.t
         THEN ControlCommand((CHOOSE ct \in CommandType : ct.t = token.t).s)
         ELSE NoneObj
    ELSE IF token.k = "jobj" /\ JTruthy(ObjGet(token, KeyDivert))
    THEN ParseDivert(token)
    ELSE IF token.k = "jlist" THEN parse_list_to_container(token)
    ELSE NoneObj

(* ----------------------------------------------------------------------- *)
(* JSONCompiler: the story file a graph is dumped to.  A dump gives the    *)
(* token v, or the exception exc it was left by.                           *)
(* ----------------------------------------------------------------------- *)
Dumped(tok) == [exc |-> "", v |-> tok]
DumpRaised(e) == [exc |-> e, v |-> JNull]

\* Divert.has_variable_target
has_variable_target(obj) == obj.t # <<>>

\* Divert.target_path_string (getter) of a divert that has a parent and a
\* target path.  A relative path: target_path asks target_pointer, whose
\* resolve_path computes nearest_container as type(self) == "Container" and
\* ..., which is False, and asserts it.  An absolute path:
\* compact_path_string asks convert_path_to_relative for self.path, whose
\* isinstance test against typing.Type["Container"] raises.
target_path_string(obj) ==
    IF obj.p.rel THEN DumpRaised("AssertionError") ELSE DumpRaised("TypeError")

\* the Divert branch of dump_runtime_object for a plain divert: the key is
\* "->", the target the variable name or the target path string
DumpDivert(obj) ==
    IF has_variable_target(obj)
    THEN Dumped(JObj(<<Member(KeyDivert, JStr(obj.t)), Member(KeyVar, JTrue)>>
                     \o (IF obj.a THEN <<Member(KeyConditional, JTrue)>>
                         ELSE <<>>)))
    ELSE target_path_string(obj)

\* the first exception among the dumps ds, "" where none raised
FirstRaised(ds) ==
    IF \E i \in DOMAIN ds : ds[i].exc # ""
    THEN ds[CHOOSE i \in DOMAIN ds :
               /\ ds[i].exc # ""
               /\ \A j \in 1..(i - 1) : ds[j].exc = ""].exc
    ELSE ""

RECURSIVE dump_runtime_container(_, _)

\* JSONCompiler.dump_runtime_object, for the objects the loader makes here
dump_runtime_object(obj) ==
    IF IsContainer(obj) THEN dump_runtime_container(obj, FALSE)
    ELSE IF obj.k = "divert" THEN DumpDivert(obj)
    ELSE IF obj.k = "int" THEN Dumped(JInt(obj.n))
    ELSE IF obj.k = "str"
    THEN IF is_newline(obj) THEN Dumped(JStr(NL))
         ELSE Dumped(JStr(<<"^">> \o obj.t))
    ELSE IF obj.k = "glue" THEN Dumped(JStr(TokGlue))
    ELSE IF obj.k = "cmd"
    THEN Dumped(JStr((CHOOSE ct \in CommandType : ct.s = obj.s).t))
    ELSE DumpRaised("RuntimeError")

\* JSONCompiler._dump_runtime_container: the content in order, then the
\* terminator: the named-only children (each dumped without its name), "#f"
\* where count_flags > 0 and "#n" where the container has a name to write;
\* None where there is none of them
dump_runtime_container(container, without_name) ==
    LET ds == [i \in DOMAIN container.content |->
                  dump_runtime_object(container.content[i])]
        named == named_only_content(container)
        ns == [i \in DOMAIN named |-> dump_runtime_container(named[i].val, TRUE)]
        has_name_property == has_valid_name(container) /\ ~without_name
        has_terminator ==
            named # <<>> \/ count_flags(container) # 0 \/ has_name_property
        terminator_data ==
            [i \in DOMAIN named |-> Member(named[i].key, ns[i].v)]
            \o (IF count_flags(container) > 0
                THEN <<Member(KeyFlags, JInt(count_flags(container)))>>
                ELSE <<>>)
            \o (IF has_name_property
                THEN <<Member(KeyName, JStr(container.name))>>
                ELSE <<>>)
    IN IF FirstRaised(ds) # "" THEN DumpRaised(FirstRaised(ds))
       ELSE IF FirstRaised(ns) # "" THEN DumpRaised(FirstRaised(ns))
       ELSE Dumped(JList([i \in DOMAIN ds |-> ds[i].v]
                         \o <<IF has_terminator THEN JObj(terminator_data)
                              ELSE JNull>>))

\* JSONCompiler.compile (Story.to_json): its with statement evaluates
\* InkObject.disable_compact_strings, an attribute the class InkObject of
\* object.py does not have, before anything is dumped
compile(root) == DumpRaised("AttributeError")

\* what a comparison of two graphs looks at: at every container the content
\* in order, the named-only children by key, count_flags and the name
RECURSIVE Structure(_)
Structure(obj) ==
    IF IsContainer(obj)
    THEN [k |-> "Container",
          content |-> [i \in DOMAIN obj.content |-> Structure(obj.content[i])],
          named_only |-> {Member(e.key, Structure(e.val)) :
                             e \in {named_only_content(obj)[i] :
                                       i \in DOMAIN named_only_content(obj)}},
          count_flags |-> count_flags(obj),
          name |-> obj.name]
    ELSE obj

(* ----------------------------------------------------------------------- *)
(* Story files: a root container of at most MaxWidth items, each a leaf    *)
(* token or a child container of at most one item, and a terminator that   *)
(* may hold a named-only child and any "#f" value.  The files carry the    *)
(* current version; the files of a root without content also carry every  *)
(* version of Versions.                                                    *)
(* ----------------------------------------------------------------------- *)
MaxWidth == 2

TextA == JStr(<<"^", "A">>)
TextB == JStr(<<"^", "B">>)
DivertToT == JObj(<<Member(KeyDivert, JStr(<<"t">>))>>)
DivertUp == JObj(<<Member(KeyDivert, JStr(<<".", "^", ".", "0">>))>>)
DivertVar == JObj(<<Member(KeyDivert, JStr(<<"x">>)), Member(KeyVar, JTrue)>>)

LeafTokens == {TextA, JStr(NL), JStr(<<"d", "o", "n", "e">>), DivertToT,
               DivertVar}

ChildTerminators ==
    {JNull,
     JObj(<<Member(KeyName, JStr(<<"g">>))>>),
     JObj(<<Member(KeyFlags, JInt(4))>>),
     JObj(<<Member(KeyFlags, JInt(2)), Member(KeyName, JStr(<<"g">>))>>)}

ChildLists ==
    {JList(items \o <<term>>) :
        items \in {<<>>, <<TextB>>, <<DivertUp>>}, term \in ChildTerminators}

RootTerminators ==
    {JNull} \cup
    {JObj(named \o <<Member(KeyFlags, JInt(f))>>) :
        named \in {<<>>, <<Member(<<"t">>, JList(<<TextB, JNull>>))>>},
        f \in 0..7} \cup
    {JObj(<<Member(<<"t">>, JList(<<TextB, JNull>>))>>)}

StoryFiles ==
    {JList(items \o <<term>>) :
        items \in UNION {[1..w -> LeafTokens \cup ChildLists] : w \in 0..MaxWidth},
        term \in RootTerminators}

\* the versions a story file may carry
MaxVersion == 23
Versions == -1..MaxVersion

\* JsonParser.INK_VERSION_CURRENT, INK_VERSION_MINIMUM_COMPATIBLE
INK_VERSION_CURRENT == 21
INK_VERSION_MINIMUM_COMPATIBLE == 18

\* a variant of _check_version that takes every version up to the current
check_version_NoMinimum(version) ==
    IF version > INK_VERSION_CURRENT
    THEN [exc |-> "RuntimeError", warnings |-> <<>>]
    ELSE IF version # INK_VERSION_CURRENT
    THEN [exc |-> "", warnings |-> <<"RuntimeWarning">>]
    ELSE [exc |-> "", warnings |-> <<>>]

\* JsonParser._check_version: the exception raised, or the categories of the
\* warnings given to warnings.warn
check_version(version) ==
    IF version > INK_VERSION_CURRENT
    THEN [exc |-> "RuntimeError", warnings |-> <<>>]
    ELSE IF version < INK_VERSION_MINIMUM_COMPATIBLE
    THEN [exc |-> "RuntimeError", warnings |-> <<>>]
    ELSE IF version # INK_VERSION_CURRENT
    THEN [exc |-> "", warnings |-> <<"RuntimeWarning">>]
    ELSE [exc |-> "", warnings |-> <<>>]

\* JsonParser.parse of the document {"inkVersion": version, "root": root}:
\* a version that is false (0) and a root that is false (the empty list)
\* raise ValueError; the root container is parsed after the version check
parse(version, root) ==
    IF version = 0
    THEN [exc |-> "ValueError", warnings |-> <<>>, root |-> NoneObj]
    ELSE IF check_version(version).exc # ""
    THEN [exc |-> check_version(version).exc, warnings |-> <<>>,
          root |-> NoneObj]
    ELSE IF ~JTruthy(root)
    THEN [exc |-> "ValueError", warnings |-> check_version(version).warnings,
          root |-> NoneObj]
    ELSE [exc |-> "", warnings |-> check_version(version).warnings,
          root |-> parse_token_to_object(root)]

NoFile == [op |-> "file", version |-> INK_VERSION_CURRENT, json |-> JNull,
           first |-> NoneObj, warnings |-> <<>>, dump |-> JNull,
           second |-> NoneObj, exc |-> "", entry |-> ""]

InitFile ==
    /\ sid = 1
    /\ m = Construct(Stories[sid])
    /\ on_error = "none"
    /\ recursive_continue_count = 0
    /\ async_continue_active = FALSE
    /\ has_validated_externals = FALSE
    /\ pc = "idle"
    /\ ret = NoRet
    /\ transcript = <<>>
    /\ \/ \E json \in StoryFiles : io = [NoFile EXCEPT !.json = json]
       \/ \E version \in Versions, term \in RootTerminators :
             io = [NoFile EXCEPT !.version = version, !.json = JList(<<term>>)]

\* the load of the file: JsonParser.parse
Load ==
    /\ io.op = "file"
    /\ \E loaded \in {parse(io.version, io.json)} :
          io' = [io EXCEPT !.op = "load", !.first = loaded.root,
                           !.warnings = loaded.warnings, !.exc = loaded.exc]
    /\ UNCHANGED <<sid, m, on_error, recursive_continue_count,
                   async_continue_active, has_validated_externals, pc, ret,
                   transcript>>

\* the dump of the loaded graph, through Story.to_json() (compile) or by
\* JSONCompiler._dump_runtime_container(root) itself
DumpEntries == {"compile", "_dump_runtime_container"}

Dump(entry) ==
    /\ io.op = "load"
    /\ io.exc = ""
    /\ \E d \in {IF entry = "compile" THEN compile(io.first)
                 ELSE dump_runtime_container(io.first, FALSE)} :
          io' = [io EXCEPT !.op = "dump", !.entry = entry, !.dump = d.v,
                           !.exc = d.exc]
    /\ UNCHANGED <<sid, m, on_error, recursive_continue_count,
                   async_continue_active, has_validated_externals, pc, ret,
                   transcript>>

\* the load of the dump
Reload ==
    /\ io.op = "dump"
    /\ io.exc = ""
    /\ \E loaded \in {parse(INK_VERSION_CURRENT, io.dump)} :
          io' = [io EXCEPT !.op = "reload", !.second = loaded.root,
                           !.warnings = io.warnings \o loaded.warnings,
                           !.exc = loaded.exc]
    /\ UNCHANGED <<sid, m, on_error, recursive_continue_count,
                   async_continue_active, has_validated_externals, pc, ret,
                   transcript>>

NextFile ==
    \/ Load
    \/ \E entry \in DumpEntries : Dump(entry)
    \/ Reload

SpecFile == InitFile /\ [][NextFile]_vars

(* ----------------------------------------------------------------------- *)
(* Path objects built from strings and compared with ==.                   *)
(* ----------------------------------------------------------------------- *)
MaxPathLen == 3

SegmentTexts == {<<"h">>, <<"1">>, <<"2">>}

\* the path string of the segments segs: joined by dots
RECURSIVE JoinDots(_)
JoinDots(segs) ==
    IF Len(segs) = 1 THEN segs[1]
    ELSE segs[1] \o <<".">> \o JoinDots(Tail(segs))

PathTexts ==
    {(IF rel THEN <<".">> ELSE <<>>) \o JoinDots(segs) :
        segs \in UNION {[1..n -> SegmentTexts] : n \in 1..MaxPathLen},
        rel \in BOOLEAN}

\* Path(txt) as the object number id
PathObject(id, txt) ==
    [id |-> id, comps |-> PathFromString(txt).comps,
     rel |-> PathFromString(txt).rel]

\* Path.Component.is_index
is_index(c) == c.index >= 0

\* Path.Component.__eq__
ComponentEq(self, other) ==
    IF is_index(other) = is_index(self)
    THEN IF is_index(self) THEN is_index(self) = is_index(other)
         ELSE self.name = other.name
    ELSE FALSE

\* left == right for two Path objects: the class Path defines no __eq__, so
\* Python compares with object.__eq__, the identity of the two objects
PathEq(left, right) == left.id = right.id

NoPaths == [op |-> "texts", a |-> <<>>, b |-> <<>>, left |-> PathObject(0, <<>>),
            right |-> PathObject(0, <<>>), equal |-> FALSE]

InitPath ==
    /\ sid = 1
    /\ m = Construct(Stories[sid])
    /\ on_error = "none"
    /\ recursive_continue_count = 0
    /\ async_continue_active = FALSE
    /\ has_validated_externals = FALSE
    /\ pc = "idle"
    /\ ret = NoRet
    /\ transcript = <<>>
    /\ \E a \in PathTexts, b \in PathTexts : io = [NoPaths EXCEPT !.a = a, !.b = b]

\* path1 = Path(a); path2 = Path(b); then path1 == path2, or path1 == path1
\* where same
ComparePaths(same) ==
    /\ io.op = "texts"
    /\ \E left \in {PathObject(1, io.a)} :
       \E right \in {IF same THEN left ELSE PathObject(2, io.b)} :
          io' = [io EXCEPT !.op = "compare", !.left = left, !.right = right,
                           !.equal = PathEq(left, right)]
    /\ UNCHANGED <<sid, m, on_error, recursive_continue_count,
                   async_continue_active, has_validated_externals, pc, ret,
                   transcript>>

NextPath == \E same \in BOOLEAN : ComparePaths(same)

SpecPath == InitPath /\ [][NextPath]_vars

(* ----------------------------------------------------------------------- *)
(* Container.content_at_path on its own: a container of a story and a path *)
(* of at most MaxComps components, walked with the default start and       *)
(* length.                                                                 *)
(* ----------------------------------------------------------------------- *)
MaxComps == 2

ComponentInputs ==
    {Component("", 0), Component("", 1), Component("", 5),
     Component("t", -1), Component("g-0", -1), Component("^", -1),
     Component("zz", -1)}

PathInputs ==
    {Path(comps, FALSE) :
        comps \in UNION {[1..n -> ComponentInputs] : n \in 0..MaxComps}}

NoWalk == [op |-> "path", c |-> 0, path |-> Path(<<>>, FALSE),
           result |-> [obj |-> NoObject, approximate |-> FALSE]]

InitWalk ==
    /\ sid \in 1..Len(Stories)
    /\ m = Construct(Stories[sid])
    /\ on_error = "none"
    /\ recursive_continue_count = 0
    /\ async_continue_active = FALSE
    /\ has_validated_externals = FALSE
    /\ pc = "idle"
    /\ ret = NoRet
    /\ transcript = <<>>
    /\ \E c \in Containers(Stories[sid]), path \in PathInputs :
          io = [NoWalk EXCEPT !.c = c, !.path = path]

\* container.content_at_path(path)
Walk ==
    /\ io.op = "path"
    /\ io' = [io EXCEPT !.op = "walked",
                        !.result = content_at_path(Story, io.c, io.path, 0, -1)]
    /\ UNCHANGED <<sid, m, on_error, recursive_continue_count,
                   async_continue_active, has_validated_externals, pc, ret,
                   transcript>>

NextWalk == Walk

SpecWalk == InitWalk /\ [][NextWalk]_vars

(* ----------------------------------------------------------------------- *)
(* The read of a global while a patch is active.  No step of a running     *)
(* story creates a StatePatch, so the patch, the globals and the default   *)
(* globals are drawn from bounded sets and the read is applied to them.    *)
(* ----------------------------------------------------------------------- *)
\* StatePatch.try_get_global: dict.get, None for a name the patch lacks
try_get_global(patch, name) == DictGet(patch, name)

\* VariablesState.get_raw_variable_with_name, index -1, with a patch:
\* "if self.patch and (value := self.patch.try_get_global(name))" tests the
\* truth of the value found
get_raw_variable_with_name(patch, mm, name) ==
    LET value == try_get_global(patch, name)
    IN IF ItemBoolRaises(value) THEN [exc |-> "RuntimeError", val |-> NoneObj]
       ELSE IF ItemTruthy(value) THEN [exc |-> "", val |-> value]
       ELSE [exc |-> "", val |-> get_variable_with_name(mm, name)]

\* the values a patch holds for x: none, or an Int, a Bool or a String
PatchValues ==
    {Absent, IntValue(0), IntValue(3), BoolValue(FALSE), BoolValue(TRUE),
     StringValue(<<>>), StringValue(<<"a">>)}

NoPatchRead == [op |-> "patch", patch |-> NoTemps, name |-> "x",
                exc |-> "", val |-> NoneObj]

InitPatch ==
    /\ sid = 1
    /\ \E gx \in {Absent, IntValue(9)}, dx \in {Absent, IntValue(8)} :
          m = [NewState(Stories[sid]) EXCEPT !.globals["x"] = gx,
                                             !.defaults["x"] = dx]
    /\ on_error = "none"
    /\ recursive_continue_count = 0
    /\ async_continue_active = FALSE
    /\ has_validated_externals = FALSE
    /\ pc = "idle"
    /\ ret = NoRet
    /\ transcript = <<>>
    /\ \E px \in PatchValues, pu \in {Absent, IntValue(1)} :
          io = [NoPatchRead EXCEPT !.patch["x"] = px, !.patch["u"] = pu]

\* variables_state.get_raw_variable_with_name(name) with the patch active
ReadGlobal(name) ==
    /\ io.op = "patch"
    /\ \E r \in {get_raw_variable_with_name(io.patch, m, name)} :
          io' = [io EXCEPT !.op = "read", !.name = name,
                           !.exc = r.exc, !.val = r.val]
    /\ UNCHANGED <<sid, m, on_error, recursive_continue_count,
                   async_continue_active, has_validated_externals, pc, ret,
                   transcript>>

NextPatch == \E name \in VarNames : ReadGlobal(name)

SpecPatch == InitPatch /\ [][NextPatch]_vars

(* ----------------------------------------------------------------------- *)
(* Story.process_choice on its own.  In a story read from a file the       *)
(* generation of a choice raises at str(choice_point.path), so the         *)
(* evaluation stack and the flags of a ChoicePoint that is in no container *)
(* are drawn from bounded sets and process_choice is applied to them.      *)
(* ----------------------------------------------------------------------- *)
MaxStack == 4
MaxChoices == 2

\* what the evaluation stack holds when a ChoicePoint is met: the strings
\* of the start and the choice-only content, their tags, and the condition
ChoiceStackValues ==
    {StringValue(<<"s", " ">>), StringValue(<<"\t", " ", "o">>),
     Tag(<<"x">>), Tag(<<"y">>), IntValue(0), IntValue(1)}

\* the flags of the ChoicePoint: every combination of condition, start
\* content and choice-only content, not once-only, and one invisible default
ChoiceFlagInputs == 1..7 \cup {14}

FreeChoicePoint(flg) ==
    [kind |-> "free", item |-> ChoicePoint(Path(<<IndexC(0)>>, FALSE), flg)]

NoChoice == [op |-> "stack", flg |-> 0, ev |-> <<>>, exc |-> ""]

\* the state of a story that has run out of content (the current pointer
\* is cleared), with the evaluation stack drawn
InitChoice ==
    /\ sid = 1
    /\ \E ev \in UNION {[1..n -> ChoiceStackValues] : n \in 0..MaxStack} :
          m = [SetCurrentPointer(NewState(Stories[sid]), 0) EXCEPT !.ev = ev]
    /\ on_error = "none"
    /\ recursive_continue_count = 0
    /\ async_continue_active = FALSE
    /\ has_validated_externals = FALSE
    /\ pc = "idle"
    /\ ret = NoRet
    /\ transcript = <<>>
    /\ io = NoChoice

\* story.process_choice(choice_point) for a ChoicePoint with the flags flg;
\* the choice it returns is appended to the choices, as step does
ProcessChoice(flg) ==
    /\ io.op \in {"stack", "choice"}
    /\ io.exc = ""
    /\ Len(m.choices) < MaxChoices
    /\ io.op = "choice" => m.choices # <<>>
    /\ \E m1 \in {process_choice(Story, m, FreeChoicePoint(flg))} :
          /\ m' = [m1 EXCEPT !.exc = "", !.exc_msg = ""]
          /\ io' = [io EXCEPT !.op = "choice", !.flg = flg, !.ev = m.ev,
                              !.exc = m1.exc]
    /\ UNCHANGED <<sid, on_error, recursive_continue_count,
                   async_continue_active, has_validated_externals, pc, ret,
                   transcript>>

\* story.try_follow_default_invisible_choice(), the call continue_single_step
\* makes after a step that left the story unable to continue
FollowDefault ==
    /\ io.op = "choice"
    /\ io.exc = ""
    /\ \E m1 \in {try_follow_default_invisible_choice(Story, m)} :
          /\ m' = [m1 EXCEPT !.exc = "", !.exc_msg = ""]
          /\ io' = [io EXCEPT !.op = "follow", !.exc = m1.exc]
    /\ UNCHANGED <<sid, on_error, recursive_continue_count,
                   async_continue_active, has_validated_externals, pc, ret,
                   transcript>>

NextChoice ==
    \/ \E flg \in ChoiceFlagInputs : ProcessChoice(flg)
    \/ FollowDefault

SpecChoice == InitChoice /\ [][NextChoice]_vars

(* ----------------------------------------------------------------------- *)
(* Properties                                                              *)
(* ----------------------------------------------------------------------- *)
\* the content object a state's current pointer addresses (NoneObj when the
\* pointer is null, past the end, or at a container)
ContentAt(mm) ==
    LET r == current_pointer(mm)
    IN IF ~PtrTruthy(mm, r) THEN NoneObj
       ELSE LET res == PointerResolve(Story, mm.heap[r].c, mm.heap[r].i)
            IN IF res.exc # "" THEN NoneObj ELSE ItemOf(Story, res.obj)

\* this step of the behaviour is one iteration of the loop of _continue
StepTaken == pc = "loop" /\ ret'.op = "continue" /\ ret'.steps = ret.steps + 1

\* the leaf objects of container c from (1-based) position i, in content order
RECURSIVE FlatItems(_, _, _)
FlatItems(S, c, i) ==
    IF i > Len(Content(S, c)) THEN <<>>
    ELSE (IF IsContainerItem(Content(S, c)[i])
          THEN FlatItems(S, Content(S, c)[i].n, 1)
          ELSE <<Content(S, c)[i]>>) \o FlatItems(S, c, i + 1)

\* a story of text only: strings, and the commands that end the flow
PlainStory(S) ==
    \A j \in 1..Len(FlatItems(S, 1, 1)) :
        \/ FlatItems(S, 1, 1)[j].k = "str"
        \/ FlatItems(S, 1, 1)[j].k = "cmd" /\ FlatItems(S, 1, 1)[j].s \in {"done", "end"}

\* the text of the strings of items, in order, up to the first command
RECURSIVE TextUntilEnd(_)
TextUntilEnd(items) ==
    IF items = <<>> \/ Head(items).k # "str" THEN <<>>
    ELSE Head(items).t \o TextUntilEnd(Tail(items))

StoryText(S) == TextUntilEnd(FlatItems(S, 1, 1))

LineA == <<"A", "\n">>
LineB == <<"B", "\n">>

C2_PlainStoryRunsToItsEnd ==
    (PlainStory(Story) /\ pc = "idle" /\ ret.op = "continue" /\ ret.steps > 0)
    => /\ ret.exc = ""
       /\ ~can_continue(m) =>
              /\ ~PtrTruthy(m, current_pointer(m))
              /\ transcript = StoryText(Story)

\* C3: once a step of a continue_() call has raised a StoryException, its
\* message is the last of current_errors, the call stack is one thread of
\* one element, no choice is pending, the current pointer is null, no
\* further step has run in that call, and can_continue is false.
C3_StoryExceptionEndsTheFlow ==
    (ret.op = "continue" /\ ret.steps_at_error # -1)
    => /\ ret.steps = ret.steps_at_error
       /\ Len(m.threads) = 1
       /\ Len(call_stack(m)) = 1
       /\ m.choices = <<>>
       /\ ~PtrTruthy(m, current_pointer(m))
       /\ ~can_continue(m)
       /\ pc = "exit" => (m.errors # <<>> /\ m.errors[Len(m.errors)] = ret.raised)
       /\ pc = "idle" => (ret.errs # <<>> /\ ret.errs[Len(ret.errs)] = ret.raised)

\* C3 witness: the loop of _continue has just been left by a StoryException
\* raised after earlier steps of the same call
C3_Witness ==
    /\ pc = "exit"
    /\ ret.steps_at_error > 1
    /\ ret.raised # ""
    /\ m.errors = <<ret.raised>>

\* the handler calls C4 describes: every error once, then every warning once
ExpectedCalls(errs, warns) ==
    [j \in 1..Len(errs) |-> [msg |-> errs[j], is_warning |-> FALSE]]
    \o [j \in 1..Len(warns) |-> [msg |-> warns[j], is_warning |-> TRUE]]

\* C4: a continue_() that ends with errors or warnings passes each of them
\* to the registered handler exactly once and returns with both lists
\* empty; with no handler it raises StoryException and keeps the lists.
C4_ErrorsReachTheHandler ==
    (pc = "idle" /\ ret.op = "continue" /\ (ret.errs # <<>> \/ ret.warns # <<>>))
    => IF on_error = "none"
       THEN /\ ret.exc = "StoryException"
            /\ m.errors = ret.errs
            /\ m.warnings = ret.warns
       ELSE /\ ret.exc = ""
            /\ ret.calls = ExpectedCalls(ret.errs, ret.warns)
            /\ m.errors = <<>>
            /\ m.warnings = <<>>

\* the element below the current one on the call stack
CallerElement(mm) == call_stack(mm)[Len(call_stack(mm)) - 1]

\* C5: the step at a tunnel divert pushes one Tunnel element; the step at
\* the tunnel return "->->" with Void on the evaluation stack pops it, so
\* the depth is what it was before the divert, and the current pointer is
\* then at the content that follows the tunnel divert in the caller's
\* container.
C5_TunnelReturnsToCaller ==
    [][/\ (StepTaken /\ ContentAt(m).k = "divert" /\ ContentAt(m).b
              /\ ContentAt(m).pt = "Tunnel")
          => /\ ret'.exc = ""
             /\ Len(call_stack(m')) = Len(call_stack(m)) + 1
             /\ current_element(m').type = "Tunnel"
             /\ m'.heap[CallerElement(m').ptr] = m.heap[current_pointer(m)]
       /\ (StepTaken /\ ContentAt(m) = [ControlCommand("->->") EXCEPT !.id = ContentAt(m).id]
              /\ PeekEv(m).k = "void" /\ Len(call_stack(m)) > 1
              /\ current_element(m).type = "Tunnel")
          => /\ ret'.exc = ""
             /\ Len(call_stack(m')) = Len(call_stack(m)) - 1
             /\ m'.heap[current_pointer(m')] =
                    [c |-> m.heap[CallerElement(m).ptr].c,
                     i |-> m.heap[CallerElement(m).ptr].i + 1]
      ]_vars

\* C5 witness: the tunnel has returned: one element on the call stack, the
\* tunnel's text in the output, the pointer behind the tunnel divert
C5_Witness ==
    /\ Story = StoryTunnel
    /\ pc = "loop"
    /\ Len(call_stack(m)) = 1
    /\ Len(m.out) = 1 /\ m.out[1].t = <<"H">>
    /\ m.heap[current_pointer(m)] = [c |-> 1, i |-> 1]

C8_EachEntryAddsOneVisit ==
    [][\A c \in Containers(Story) :
          visits_should_be_counted(Story, c)
          => visit_count_for_container(m', c) - visit_count_for_container(m, c)
                 = m'.entries[c] - m.entries[c]]_vars

\* the container a choice point's path_on_choice addresses, 0 for none
ChoiceTargetOf(cp) ==
    IF resolve_path(Story, cp.p).exc # "" THEN 0
    ELSE ResultContainer(resolve_path(Story, cp.p).res)

\* C9: the step at a once-only choice point whose target container has been
\* entered at least once runs to its end and adds nothing to the pending
\* choices.
C9_EnteredOnceOnlyChoiceIsDropped ==
    [][(StepTaken /\ ContentAt(m).k = "choice"
          /\ ChoiceFlags(ContentAt(m).n).once_only
          /\ ChoiceTargetOf(ContentAt(m)) # 0
          /\ m.entries[ChoiceTargetOf(ContentAt(m))] >= 1)
       => (ret'.exc = "" /\ m'.choices = m.choices)]_vars

\* C10: a read of variables_state[x] that follows variables_state[x] = v,
\* for a declared global x and a bool, int, float or str v, returns v.
C10_SetThenGetReturnsTheValue ==
    [][(ret.op = "set" /\ ret.exc = ""
          /\ ret.val.k \in {"pybool", "pyint", "pyfloat", "pystr"}
          /\ ret'.op = "get" /\ ret'.name = ret.name)
       => (ret'.exc = "" /\ ret'.val = ret.val)]_vars

\* this step of the behaviour is the host call variables_state[name] = v
SetTaken == pc = "idle" /\ ret'.op = "set"

\* C11: variables_state[name] = v for a name that is not a declared global
\* raises StoryException and changes neither the global variables nor the
\* set of pending changed variables (no patch is ever active), and a read
\* of the name after it returns no value.
C11_UndeclaredAssignmentIsRefused ==
    [][(SetTaken /\ ~HasKey(m.defaults, ret'.name))
       => (/\ ret'.exc = "StoryException"
           /\ m'.globals = m.globals
           /\ m'.changed = m.changed
           /\ VariablesGetItem(m', ret'.name) = [exc |-> "", val |-> PyNone])]_vars

\* C12: with batching off, an assignment to a declared global through
\* set_global calls variable_changed_event exactly once, with the name and
\* the new value object, if the new value differs from the previous value of
\* the variable, and not at all if it equals it.
C12_UnbatchedWriteFiresOncePerChange ==
    [][(SetTaken /\ ~m.batch /\ ret'.exc = "")
       => m'.events = IF ValueOf(DictGet(m.globals, ret'.name)) # ret'.val
                      THEN << [name |-> ret'.name,
                               value |-> m'.globals[ret'.name]] >>
                      ELSE <<>>]_vars

\* this step of the behaviour is the end of a continue_() call
ExitTaken == pc \in {"loop", "exit"} /\ pc' = "idle" /\ ret'.op = "continue"

\* how many of the recorded calls of variable_changed_event name the variable
EventCount(mm, name) ==
    Cardinality({j \in 1..Len(mm.events) : mm.events[j].name = name})

\* C13: inside the outermost continue_() no step calls
\* variable_changed_event; when that continue_() returns, batching is off,
\* the event has been called exactly once for every global whose value
\* differs from its value at the call and for no other, and the set of
\* changed variables is empty.
C13_BatchedEventsFireAtTheEnd ==
    [][/\ (StepTaken /\ recursive_continue_count = 1) => m'.events = <<>>
       /\ (ExitTaken /\ recursive_continue_count = 1 /\ ret'.exc = "")
           => (/\ ~m'.batch
               /\ m'.changed = {}
               /\ \A name \in VarNames :
                     EventCount(m', name) =
                        IF ValueOf(DictGet(m'.globals, name))
                              # ValueOf(DictGet(ret.globals_at_entry, name))
                        THEN 1 ELSE 0)]_vars

\* C15: whenever a host call has read current_text (continue_() on its
\* return, or the property itself), the read succeeded and gave
\* clean_output_whitespace of the texts of the String entries of the output
\* stream outside BeginTag..EndTag, in stream order; so the empty string
\* where the stream holds no text.
C15_CurrentTextIsTheCleanedStream ==
    ret.read => (/\ ret.exc = ""
                 /\ ret.text = clean_output_whitespace(StreamText(m.out, 1, FALSE)))

\* the entries of out from j on are the trailing whitespace run: no
\* ControlCommand and no String with visible text among them
InTrailingRun(out, j) ==
    \A i \in j..Len(out) :
        /\ ~IsControlCommand(out[i])
        /\ ~(IsStringValue(out[i]) /\ is_non_whitespace(out[i]))

\* the positions of the newlines of the trailing whitespace run
RunNewlines(out) ==
    {j \in 1..Len(out) : InTrailingRun(out, j) /\ IsStringValue(out[j])
                                               /\ is_newline(out[j])}

\* out without the String entries from the first newline of its trailing
\* whitespace run onwards
GlueTrimmed(out) ==
    IF RunNewlines(out) = {} THEN out
    ELSE LET k == CHOOSE j \in RunNewlines(out) : \A i \in RunNewlines(out) : j <= i
         IN SubSeq(out, 1, k - 1)
            \o SelectSeq(SubSeq(out, k, Len(out)), LAMBDA c : ~IsStringValue(c))

\* C16: the step that pushes a Glue to the output stream leaves the stream
\* without the String entries from the first newline of its trailing
\* whitespace run onwards, followed by the Glue; and continue_() on 'A',
\* newline, Glue, 'B', newline returns the one line 'AB' and one newline.
C16_GlueRemovesTheTrailingNewlines ==
    /\ [][(StepTaken /\ ContentAt(m).k = "glue" /\ ~in_expression_evaluation(m)
             /\ ret'.exc = "")
          => m'.out = Append(GlueTrimmed(m.out), ContentAt(m))]_vars
    /\ []((Story = StoryGlue /\ ret.op = "continue" /\ ret.read)
           => (ret.exc = "" /\ ret.text = <<"A", "B", "\n">>))

\* C16 witness: the continue_() of 'A', newline, Glue, 'B', newline has
\* returned, and its stream holds 'A', 'B' and the newline only
C16_Witness ==
    /\ Story = StoryGlue /\ pc = "idle" /\ ret.op = "continue" /\ ret.read
    /\ [j \in 1..Len(m.out) |-> m.out[j].t] = << <<"A">>, <<"B">>, <<"\n">> >>

\* C17: pop(t) called right after push(t), for t Function or Tunnel, does
\* not raise and leaves the thread list as it was before the push: the
\* same threads with the same elements, each with its type, its Pointer,
\* its temporary variables and its in_expression_eval; the Pointer objects
\* are not changed by either call.
C17_PushThenPopRestoresTheCallStack ==
    [][/\ (ret'.op \in {"push", "pop"}) => m'.heap = m.heap
       /\ (ret.op = "push" /\ ret'.op = "pop" /\ ret'.name = ret.name)
           => (ret'.exc = "" /\ m'.threads = ret.threads_at_push)]_vars

\* C17 witness: on a call stack of two threads whose current thread holds
\* two elements, one with a temporary variable and in_expression_eval set,
\* a push was undone by the pop of the same type
C17_Witness ==
    /\ ret.op = "pop" /\ ret.exc = "" /\ ret.threads_at_push = m.threads
    /\ Len(m.threads) = 2 /\ Len(call_stack(m)) = 2
    /\ \E e \in 1..2 : /\ call_stack(m)[e].in_expr
                        /\ call_stack(m)[e].temps["u"] = IntValue(5)

\* C18: the dump of the graph loaded from a story file raises nothing, and
\* the graph loaded from that dump has, at every container, the ordered
\* content, the named-only children under their keys, the count flags and
\* the name of the graph loaded first.
C18_LoadDumpLoadKeepsTheGraph ==
    /\ io.op = "dump" => io.exc = ""
    /\ io.op = "reload" =>
          (io.exc = "" /\ Structure(io.second) = Structure(io.first))

\* the "#f" value of the root terminator of the file at hand, -1 where the
\* terminator has none
FileFlags ==
    IF io.json.items[Len(io.json.items)].k = "jobj"
       /\ \E i \in DOMAIN io.json.items[Len(io.json.items)].items :
             io.json.items[Len(io.json.items)].items[i].key = KeyFlags
    THEN ObjGet(io.json.items[Len(io.json.items)], KeyFlags).n
    ELSE -1

\* C19: a new container whose count flags were set to f (the "#f" of its
\* terminator, 0..7) reads count_flags back as f, and as 0 for f = 4; for
\* f = 2 it has turn_index_should_be_counted set and
\* visits_should_be_counted not set.
C19_CountFlagsReadBackAsWritten ==
    (io.op = "load" /\ io.exc = "" /\ FileFlags >= 0) =>
        /\ count_flags(io.first) = (IF FileFlags = 4 THEN 0 ELSE FileFlags)
        /\ FileFlags = 2 =>
               /\ io.first.turn_index_should_be_counted
               /\ ~io.first.visits_should_be_counted

\* C20: two Path objects compare equal exactly when they are both relative
\* or both absolute, have the same number of components and their
\* components are pairwise equal; two components are equal exactly when
\* they are index components of the same index or name components of the
\* same name.
C20_PathsAreEqualComponentwise ==
    io.op = "compare" =>
        /\ io.equal <=>
              /\ io.left.rel = io.right.rel
              /\ Len(io.left.comps) = Len(io.right.comps)
              /\ \A i \in DOMAIN io.left.comps :
                    i \in DOMAIN io.right.comps =>
                        ComponentEq(io.left.comps[i], io.right.comps[i])
        /\ \A i \in DOMAIN io.left.comps : \A j \in DOMAIN io.right.comps :
              ComponentEq(io.left.comps[i], io.right.comps[j]) <=>
                  /\ io.left.comps[i].index = io.right.comps[j].index
                  /\ io.left.comps[i].name = io.right.comps[j].name

\* C21: content_at_path(path) on a container gives what following every
\* component of the path in order, from the first one on, gives: the object
\* reached and approximate = false where every component resolves, the last
\* object reached and approximate = true where a component is a missing
\* name, an index out of range or meets an object that is no container.
C21_ContentAtPathFollowsEveryComponent ==
    io.op = "walked" =>
        io.result = ContentAtPathWalk(Story, ContainerObj(io.c),
                                      ContainerObj(io.c), io.path.comps)

C23_NoThreadIsEverEmptied ==
    /\ [](\A j \in DOMAIN m.threads : Len(m.threads[j].callstack) >= 1)
    /\ [][(ret'.op = "pop"
             /\ (\/ Len(call_stack(m)) = 1
                 \/ (ret'.name # "" /\ current_element(m).type # ret'.name)))
          => (ret'.exc = "RuntimeError" /\ m'.threads = m.threads)]_vars

\* C23 witness: a pop without a type was refused on a copied thread of one
\* element
C23_Witness ==
    /\ ret.op = "pop" /\ ret.name = "" /\ ret.exc = "RuntimeError"
    /\ Len(m.threads) = 3 /\ Len(call_stack(m)) = 1

\* C24: the thread that push_thread() or fork_thread() appends is a deep
\* copy of the thread it was made from: element by element it has the same
\* type, the same pointer position and the same temporary variables, and it
\* holds no Pointer object of the original, so that advancing the pointer
\* in one thread is not seen in the other.
C24_CopiedThreadIsADeepCopy ==
    ret.op \in {"push_thread", "fork_thread"} =>
        LET copy == m.threads[Len(m.threads)]
            original == m.threads[Len(m.threads) - 1]
        IN /\ Len(copy.callstack) = Len(original.callstack)
           /\ \A j \in DOMAIN copy.callstack :
                 /\ copy.callstack[j].type = original.callstack[j].type
                 /\ m.heap[copy.callstack[j].ptr] = m.heap[original.callstack[j].ptr]
                 /\ copy.callstack[j].temps = original.callstack[j].temps
                 /\ copy.callstack[j].ptr # original.callstack[j].ptr

\* C27: set_temporary_variable(name, value, declare_new = False) raises for
\* a name the current element has not declared and leaves its temporaries
\* as they were; for a declared name it succeeds and stores the value.
C27_SetTemporaryNeedsADeclaredName ==
    (ret.op = "set_temporary" /\ ~ret.read) =>
        LET before == ret.threads_at_push[Len(ret.threads_at_push)].callstack
            temps_before == before[Len(before)].temps
        IN IF HasKey(temps_before, ret.name)
           THEN /\ ret.exc = ""
                /\ current_element(m).temps =
                       [temps_before EXCEPT ![ret.name] = ret.val]
           ELSE /\ ret.exc # ""
                /\ current_element(m).temps = temps_before

\* C25: the fork_thread() call by which process_choice takes the thread of
\* the choice it generates leaves the thread list of the call stack as it
\* was: the same threads, the same current thread.
C25_GeneratingAChoiceKeepsTheThreads ==
    ret.op = "fork_thread" => m.threads = ret.threads_at_push

\* the names the story declares as globals: its new-declaration assignments
\* marked global ({"VAR=": name})
GlobalDeclarations(S) ==
    UNION {{S.content[c][j].s :
               j \in {j \in DOMAIN S.content[c] :
                         /\ S.content[c][j].k = "assign"
                         /\ S.content[c][j].a /\ S.content[c][j].b}} :
           c \in Containers(S)}

\* C26: only a declaration marked global (VAR=) writes a global: a
\* declaration not marked global (temp=) leaves the global variables as they
\* are, so every name held in the globals is one the story declares global.
C26_TempDeclarationWritesNoGlobal ==
    \A name \in VarNames :
        HasKey(m.globals, name) => name \in GlobalDeclarations(Story)

\* C28: while a patch is active, the read of a global gives the value the
\* patch holds for the name whenever it holds one, whatever the value is
\* (0, false and the empty string as well); otherwise the value in the
\* globals if there is one, otherwise the value in the default globals.
C28_PatchValueIsReadFirst ==
    io.op = "read" =>
        /\ io.exc = ""
        /\ io.val = IF HasKey(io.patch, io.name) THEN io.patch[io.name]
                    ELSE IF HasKey(m.globals, io.name) THEN m.globals[io.name]
                    ELSE IF HasKey(m.defaults, io.name) THEN m.defaults[io.name]
                    ELSE NoneObj

\* C30: the step at a VariableReference to a name that is neither a global
\* nor a temporary in scope adds exactly one warning and no error, pushes
\* the Int value 0 on the evaluation stack, and does not end the flow.
C30_UnknownVariableReadsAsZero ==
    [][(StepTaken /\ ContentAt(m).k = "varref"
          /\ get_variable_with_name(m, ContentAt(m).s).k = "none")
       => /\ ret'.exc = ""
          /\ Len(m'.warnings) = Len(m.warnings) + 1
          /\ m'.errors = m.errors
          /\ m'.ev = Append(m.ev, IntValue(0))
          /\ PtrTruthy(m', current_pointer(m')) => can_continue(m')]_vars

\* the string form of a value: the digits of an Int, true or false for a
\* Bool, the text of a String
StringForm(o) ==
    CASE o.k = "int" -> Digits(o.n)
      [] o.k = "bool" -> IF o.a THEN <<"t", "r", "u", "e">>
                         ELSE <<"f", "a", "l", "s", "e">>
      [] OTHER -> o.t

\* C29: the step at EvalOutput pops exactly one value from the evaluation
\* stack and appends the string form of every Int, Bool or String popped
\* (0, false and the empty string as well) to the text of the output
\* stream; for Void it appends nothing.
C29_EvalOutputPrintsEveryValue ==
    [][(StepTaken /\ ContentAt(m).k = "cmd" /\ ContentAt(m).s = "out"
          /\ PeekEv(m).k \in {"int", "bool", "str", "void"})
       => /\ ret'.exc = ""
          /\ m'.ev = SubSeq(m.ev, 1, Len(m.ev) - 1)
          /\ StreamText(m'.out, 1, FALSE) =
                StreamText(m.out, 1, FALSE)
                \o (IF PeekEv(m).k = "void" THEN <<>> ELSE StringForm(PeekEv(m)))]_vars

\* element j of thread t can move on: its Pointer, advanced by one,
\* addresses content (in its container or behind it in an ancestor)
MovedOn(mm, t, j) ==
    Ascend(Story, mm.heap[mm.threads[t].callstack[j].ptr].c,
           mm.heap[mm.threads[t].callstack[j].ptr].i + 1, TRUE, FALSE)

\* where the automatic return ends when element j of thread t has run out
\* of content: the thread and element that go on (or the ones the flow ends
\* in) and the number of Voids pushed on the way
RECURSIVE AutoReturn(_, _, _, _)
AutoReturn(mm, t, j, voids) ==
    LET cs == mm.threads[t].callstack
        function == j > 1 /\ cs[j].type = "Function"
        thread == ~function /\ t > 1 /\ cs[j].type # "FunctionEvaluationFromGame"
        t1 == IF function THEN t ELSE t - 1
        j1 == IF function THEN j - 1 ELSE Len(mm.threads[t - 1].callstack)
        v == IF function /\ cs[j - 1].in_expr THEN voids + 1 ELSE voids
    IN IF ~function /\ ~thread
       THEN [t |-> t, j |-> j, voids |-> voids, ended |-> TRUE]
       ELSE IF ~PtrTruthy(mm, mm.threads[t1].callstack[j1].ptr)
       THEN [t |-> t1, j |-> j1, voids |-> v, ended |-> TRUE]
       ELSE IF MovedOn(mm, t1, j1).ok
       THEN [t |-> t1, j |-> j1, voids |-> v, ended |-> FALSE]
       ELSE AutoReturn(mm, t1, j1, v)

DoneTaken == StepTaken /\ ContentAt(m).k = "cmd" /\ ContentAt(m).s = "done"

\* C32: the step at Done with more than one thread pops the current thread
\* and goes on in the thread beneath it; with a single thread it sets
\* did_safe_exit of the state and clears the current pointer, so that
\* can_continue is false, and leaves the elements of the call stack (but
\* for the pointer) and the pending choices as they were.
C32_DoneEndsTheThreadOrTheFlow ==
    [][/\ (DoneTaken /\ Len(m.threads) > 1)
          => /\ ret'.exc = ""
             /\ Len(m'.threads) = Len(m.threads) - 1
             /\ PtrTruthy(m', current_pointer(m'))
       /\ (DoneTaken /\ Len(m.threads) = 1)
          => /\ ret'.exc = ""
             /\ m'.did_safe_exit
             /\ ~PtrTruthy(m', current_pointer(m'))
             /\ ~can_continue(m')
             /\ m'.threads = [m.threads EXCEPT ![1].callstack[Len(call_stack(m))].ptr = 0,
                                               ![1].prev = m'.threads[1].prev]
             /\ m'.choices = m.choices]_vars

\* C33: the step that pushes a newline String while the last entry of the
\* output stream is a Glue leaves the output stream as it was.
C33_NewlineAfterGlueIsDropped ==
    [][(StepTaken /\ ContentAt(m).k = "str" /\ is_newline(ContentAt(m))
          /\ ~in_expression_evaluation(m)
          /\ m.out # <<>> /\ IsGlue(m.out[Len(m.out)]))
       => (ret'.exc = "" /\ m'.out = m.out)]_vars

\* a String of whitespace: a newline, or spaces and tabs only
IsWhitespaceString(o) ==
    IsStringValue(o) /\ (is_newline(o) \/ is_inline_whitespace(o))

\* the function start recorded in the current element, 0 where none is
FunctionStart(mm) ==
    IF current_element(mm).fn_start = -1 THEN 0 ELSE current_element(mm).fn_start

\* C35: after a step that has popped a Function element, the entries of the
\* output stream before the element's function start are as they were, and
\* the stream does not end, behind the function start, in a String of
\* whitespace.
C35_FunctionEndTrimsWhitespace ==
    [][(StepTaken /\ ret'.exc = "" /\ current_element(m).type = "Function"
          /\ Len(m'.threads) = Len(m.threads)
          /\ Len(call_stack(m')) < Len(call_stack(m)))
       => /\ SubSeq(m'.out, 1, FunctionStart(m)) = SubSeq(m.out, 1, FunctionStart(m))
          /\ Len(m'.out) > FunctionStart(m)
                => ~IsWhitespaceString(m'.out[Len(m'.out)])]_vars

\* the texts of the String entries of out behind index j, in stream order
RECURSIVE StringsBehind(_, _)
StringsBehind(out, j) ==
    IF j >= Len(out) THEN <<>>
    ELSE (IF IsStringValue(out[j + 1]) THEN out[j + 1].t ELSE <<>>)
         \o StringsBehind(out, j + 1)

\* the index (from 1) of the most recent BeginString of out, 0 where none is
LastBeginString(out) ==
    IF \E j \in 1..Len(out) : IsControlCommand(out[j]) /\ out[j].s = "str"
    THEN CHOOSE j \in 1..Len(out) :
            /\ IsControlCommand(out[j]) /\ out[j].s = "str"
            /\ \A k \in (j + 1)..Len(out) :
                  ~(IsControlCommand(out[k]) /\ out[k].s = "str")
    ELSE 0

\* C34: a step at EndString with a BeginString in the output stream cuts the
\* stream before the most recent BeginString, pushes on the evaluation stack
\* one String whose text is the removed texts joined in the order of their
\* emission, and leaves the state in expression evaluation.
C34_EndStringJoinsInEmissionOrder ==
    [][(StepTaken /\ ContentAt(m).k = "cmd" /\ ContentAt(m).s = "/str"
          /\ LastBeginString(m.out) > 0)
       => LET j == LastBeginString(m.out)
          IN /\ ret'.exc = ""
             /\ m'.out = SubSeq(m.out, 1, j - 1)
             /\ m'.ev = Append(m.ev, StringValue(StringsBehind(m.out, j)))
             /\ in_expression_evaluation(m')]_vars

\* the flags io.flg of the ChoicePoint process_choice was applied to
ChoiceFl == ChoiceFlags(io.flg)

\* the evaluation stack process_choice met, without the condition
BelowCondition ==
    IF ChoiceFl.has_condition THEN SubSeq(io.ev, 1, Len(io.ev) - 1) ELSE io.ev

\* the Tags on top of the stack ev, in the order in which they were pushed
RECURSIVE TagRun(_)
TagRun(ev) ==
    IF ev # <<>> /\ ev[Len(ev)].k = "tag"
    THEN TagRun(SubSeq(ev, 1, Len(ev) - 1)) \o <<ev[Len(ev)].t>>
    ELSE <<>>

\* a text without the spaces and tabs at its two ends
RECURSIVE TrimSpacesAndTabs(_)
TrimSpacesAndTabs(t) ==
    IF t # <<>> /\ Head(t) \in {" ", "\t"} THEN TrimSpacesAndTabs(Tail(t))
    ELSE IF t # <<>> /\ t[Len(t)] \in {" ", "\t"}
         THEN TrimSpacesAndTabs(SubSeq(t, 1, Len(t) - 1))
    ELSE t

\* the stack held the choice-only string on its tags on the start string on
\* its tags: [ok, start, start_tags, only, only_tags]
StartAndOnly ==
    LET e == BelowCondition
        otags == TagRun(SubSeq(e, 1, Len(e) - 1))
        e2 == SubSeq(e, 1, Len(e) - 1 - Len(otags))
        stags == TagRun(SubSeq(e2, 1, Len(e2) - 1))
    IN IF e # <<>> /\ IsStringValue(e[Len(e)])
          /\ e2 # <<>> /\ IsStringValue(e2[Len(e2)])
       THEN [ok |-> TRUE, start |-> e2[Len(e2)].t, start_tags |-> stags,
             only |-> e[Len(e)].t, only_tags |-> otags]
       ELSE [ok |-> FALSE, start |-> <<>>, start_tags |-> <<>>,
             only |-> <<>>, only_tags |-> <<>>]

\* C36: a choice made from a ChoicePoint with start content and choice-only
\* content has the tags of the start content followed by the tags of the
\* choice-only content, and as its text the start text followed by the
\* choice-only text, without the spaces and tabs at the two ends.
C36_ChoiceTagsAndText ==
    (io.op = "choice" /\ io.exc = "" /\ Len(m.choices) = 1
       /\ ChoiceFl.has_start_content /\ ChoiceFl.has_choice_only_content
       /\ StartAndOnly.ok)
    => /\ m.choices[1].tags = StartAndOnly.start_tags \o StartAndOnly.only_tags
       /\ m.choices[1].text
             = TrimSpacesAndTabs(StartAndOnly.start \o StartAndOnly.only)

\* what process_choice leaves of the stack ev for the flags fl when the
\* truth of the condition plays no part: the condition, then the
\* choice-only string with its tags, then the start string with its tags
StackLeft(ev, fl) ==
    LET e1 == IF fl.has_condition THEN SubSeq(ev, 1, Len(ev) - 1) ELSE ev
        e2 == IF fl.has_choice_only_content
              THEN PopTags(SubSeq(e1, 1, Len(e1) - 1), <<>>).ev ELSE e1
    IN IF fl.has_start_content
       THEN PopTags(SubSeq(e2, 1, Len(e2) - 1), <<>>).ev ELSE e2

C39_WitnessShown ==
    /\ io.op = "choice" /\ io.exc = "" /\ io.flg = 7
    /\ Len(io.ev) = 4 /\ io.ev[4] = IntValue(1)
    /\ Len(m.choices) = 1 /\ Len(m.ev) = 1

\* C37: try_follow_default_invisible_choice on a story that cannot continue:
\* with pending choices that are all invisible defaults the first is
\* followed (the choices are cleared, the current pointer is at its target,
\* the turn index is as it was); otherwise the call changes nothing.
C37_DefaultChoiceIsFollowed ==
    [][(io.op = "choice" /\ io'.op = "follow" /\ ~can_continue(m))
       => IF m.choices # <<>>
             /\ \A j \in 1..Len(m.choices) : m.choices[j].is_invisible_default
          THEN /\ io'.exc = ""
               /\ m'.choices = <<>>
               /\ PtrTruthy(m', current_pointer(m'))
               /\ m'.heap[current_pointer(m')] = [c |-> 1, i |-> 0]
               /\ m'.turn = m.turn
          ELSE /\ io'.exc = ""
               /\ m'.choices = m.choices
               /\ ~can_continue(m')]_vars

\* C40: whenever no call of continue_() is in progress the counter of
\* nested continues is 0.
C40_CounterIsZeroBetweenCalls ==
    pc = "idle" => recursive_continue_count = 0

\* C38: when a call of continue_async with a positive budget returns at the
\* end of the content, async_continue_complete is true, and if_async_we_cant
\* then accepts.
C38_AsyncContinueCompletes ==
    [][/\ (pc # "idle" /\ pc' = "idle" /\ ret'.op = "continue"
             /\ ret'.exc \in {"", "StoryException"}
             /\ ~can_continue(m'))
          => ~async_continue_active'
       /\ (ret'.op = "if_async" /\ ~can_continue(m) /\ ret.op = "continue"
             /\ ret.exc \in {"", "StoryException"})
          => ret'.exc = ""]_vars
====
